---------------------------- MODULE Spec2Model ----------------------------
(***************************************************************************)
(* A model of the PyQuickWin selection engine (src/pyquickwin.pyw):        *)
(* StrCompare, parse, HistStore/HistManager with the update_histmgr        *)
(* wrapper, WinExcluder, WinManager, Processor.update, the loads of        *)
(* Processor.__init__ and DirAggProcessor.                                 *)
(*                                                                         *)
(* Python strings are TLA+ strings; the character at position i of s is    *)
(* SubSeq(s, i, i) (1-based).  An Optional value is a sequence of length   *)
(* at most one: None is <<>> and a value x is <<x>>.                       *)
(***************************************************************************)
EXTENDS Integers, Sequences, FiniteSets, TLC

(***************************************************************************)
(* Python string primitives.                                               *)
(***************************************************************************)

\* The characters the model's strings are made of, in code-point order.
CharOrder == " '-.;=>ABCDEFGHIJKLMNOPQRSTUVWXYZabcdefghijklmnopqrstuvwxyz"

UpperChars == "ABCDEFGHIJKLMNOPQRSTUVWXYZ"

LowerChars == "abcdefghijklmnopqrstuvwxyz"

None == <<>>

Some(x) == <<x>>

CharAt(s, i) == SubSeq(s, i, i)

RECURSIVE IndexFrom(_, _, _)
\* str.index(c, start) with 0-based positions; -1 stands for ValueError.
IndexFrom(s, c, start) ==
    IF start >= Len(s) THEN -1
    ELSE IF CharAt(s, start + 1) = c THEN start
    ELSE IndexFrom(s, c, start + 1)

\* ord(c): the position of c in code-point order.
Ord(c) == IndexFrom(CharOrder, c, 0)

LowerChar(c) ==
    LET i == IndexFrom(UpperChars, c, 0)
    IN  IF i >= 0 THEN CharAt(LowerChars, i + 1) ELSE c

RECURSIVE Lower(_)
\* str.lower()
Lower(s) == IF s = "" THEN "" ELSE LowerChar(CharAt(s, 1)) \o Lower(Tail(s))

\* str.startswith(p)
StartsWith(s, p) == Len(p) <= Len(s) /\ SubSeq(s, 1, Len(p)) = p

\* p in s
Contains(s, p) == \E i \in 0..(Len(s) - Len(p)) : SubSeq(s, i + 1, i + Len(p)) = p

RECURSIVE LStrip(_)
\* str.lstrip()
LStrip(s) == IF s # "" /\ CharAt(s, 1) = " " THEN LStrip(Tail(s)) ELSE s

RECURSIVE RStrip(_)
\* str.rstrip()
RStrip(s) ==
    IF s # "" /\ CharAt(s, Len(s)) = " " THEN RStrip(SubSeq(s, 1, Len(s) - 1)) ELSE s

\* str.strip()
Strip(s) == LStrip(RStrip(s))

RECURSIVE StrLess(_, _)
\* s < t on Python strings: lexicographic by code point.
StrLess(s, t) ==
    IF t = "" THEN FALSE
    ELSE IF s = "" THEN TRUE
    ELSE IF CharAt(s, 1) = CharAt(t, 1) THEN StrLess(Tail(s), Tail(t))
    ELSE Ord(CharAt(s, 1)) < Ord(CharAt(t, 1))

(***************************************************************************)
(* StrCompare                                                              *)
(***************************************************************************)

RECURSIVE ProgressiveNoAdvance(_, _, _)
\* A loop that looks for every character from the start of the target.
ProgressiveNoAdvance(ltest, ltarg, prev) ==
    IF ltest = "" THEN TRUE
    ELSE IF IndexFrom(ltarg, CharAt(ltest, 1), 0) = -1 THEN FALSE
    ELSE ProgressiveNoAdvance(Tail(ltest), ltarg, 0)

RECURSIVE ProgressiveFrom(_, _, _)
\* The loop of StrCompare.progressive: prev is the scan cursor.
ProgressiveFrom(ltest, ltarg, prev) ==
    IF ltest = "" THEN TRUE
    ELSE LET index == IndexFrom(ltarg, CharAt(ltest, 1), prev)
         IN  IF index = -1 THEN FALSE
             ELSE IF index < prev THEN FALSE
             ELSE ProgressiveFrom(Tail(ltest), ltarg, index + 1)

\* A progressive that does not lower-case its arguments.
progressiveCased(test, target) ==
    IF test = "" THEN TRUE
    ELSE IF target = "" THEN FALSE
    ELSE ProgressiveFrom(test, target, 0)

\* StrCompare.progressive under _argcheck
progressive(test, target) ==
    IF test = "" THEN TRUE
    ELSE IF target = "" THEN FALSE
    ELSE ProgressiveFrom(Lower(test), Lower(target), 0)

\* StrCompare.includes under _argcheck
includes(test, target) ==
    IF test = "" THEN TRUE
    ELSE IF target = "" THEN FALSE
    ELSE Contains(Lower(target), Lower(test))

\* An exact without _argcheck.
exactNoArgcheck(test, target) == Lower(test) = Lower(target)

\* StrCompare.exact under _argcheck
exact(test, target) ==
    IF test = "" THEN TRUE
    ELSE IF target = "" THEN FALSE
    ELSE Lower(test) = Lower(target)

\* A choice that gives the sigil no meaning.
choiceNoSigil(test, target) == progressive(test, target)

\* StrCompare.choice under _argcheck
choice(test, target) ==
    IF test = "" THEN TRUE
    ELSE IF target = "" THEN FALSE
    ELSE IF StartsWith(test, "'") THEN includes(Tail(test), target)
    ELSE progressive(test, target)

(***************************************************************************)
(* parse                                                                   *)
(***************************************************************************)

RECURSIVE TokenizeFrom(_, _, _)
\* The loop of tokenize(): toks so far, the token being built, the rest.
TokenizeFrom(toks, tok, rest) ==
    IF rest = "" THEN Append(toks, tok)
    ELSE LET c == CharAt(rest, 1)
         IN  IF c = ";" /\ tok # ""
             THEN TokenizeFrom(Append(toks, tok), c, Tail(rest))
             ELSE TokenizeFrom(toks, tok \o c, Tail(rest))

tokenize(input_cmd) == TokenizeFrom(<<>>, "", input_cmd)

RECURSIVE SkipWord(_)
\* The rest of s from its first white-space character on.
SkipWord(s) == IF s = "" \/ CharAt(s, 1) = " " THEN s ELSE SkipWord(Tail(s))

\* A totext that drops the white space after the text.
totextTrimmed(tok) == RStrip(LStrip(SkipWord(LStrip(tok))))

\* tok.split(maxsplit=1)[1] if there are two segments, else "".
totext(tok) == LStrip(SkipWord(LStrip(tok)))

ParseTok(tok0) ==
    LET tok1 == LStrip(tok0)
        tok  == LStrip(Tail(tok1))
    IN  IF ~StartsWith(tok1, ";") THEN [kind |-> "TITLE", text |-> tok1]
        ELSE IF StartsWith(tok, "t ") THEN [kind |-> "TITLE", text |-> totext(tok)]
        ELSE IF StartsWith(tok, "e ") THEN [kind |-> "EXE", text |-> totext(tok)]
        ELSE IF tok = "g" \/ StartsWith(tok, "g ")
             THEN [kind |-> "GET", text |-> totext(tok)]
        ELSE IF tok = "s" \/ StartsWith(tok, "s ")
             THEN [kind |-> "SET", text |-> totext(tok)]
        ELSE IF StartsWith(tok, "o") THEN [kind |-> "ORDER", text |-> totext(tok)]
        ELSE IF tok = "l" \/ StartsWith(tok, "l ")
             THEN [kind |-> "LIMIT", text |-> totext(tok)]
        ELSE IF Strip(tok) = "d" THEN [kind |-> "DELETE", text |-> totext(tok)]
        ELSE [kind |-> "UNKNOWN", text |-> totext(tok)]

RECURSIVE ParseToks(_)
ParseToks(toks) ==
    IF toks = <<>> THEN <<>>
    ELSE IF Head(toks) = "" THEN ParseToks(Tail(toks))
    ELSE <<ParseTok(Head(toks))>> \o ParseToks(Tail(toks))

parse(input_cmd) == ParseToks(tokenize(input_cmd))

(***************************************************************************)
(* The program state.                                                      *)
(***************************************************************************)
VARIABLES
    allwins,          \* WinManager._allwins: ManagedWindow objects [num, winfo, is_displayed]
    selected_win,     \* WinManager._selected_win: a position in allwins, 0 for None
    orderby,          \* WinManager._orderby: "None", "title", "exe" or "alias"
    alias,            \* WinManager._alias: the dict, as its items [k, v] in insertion order
    alias_file,       \* the alias blob as last written
    exclusions,       \* WinExcluder._exclusions: rules [title, exe], "" for an absent key
    hists,            \* HistStore._hists: entries [cmd, row]
    pointer,          \* HistManager._pointer
    cmd_prefix,       \* HistManager._cmd_prefix (Optional)
    max_entries,      \* HistStore._max_entries
    save_rownum,      \* HistStore._save_rownum (Optional)
    prefix,           \* processor.prefix of the processor that owns the history
    pc,               \* position inside Processor.update
    pinput,           \* the input event being handled (the arguments of a StrCompare call)
    cmds,             \* the parsed commands _handle_incomplete has not reached yet
    cmd_on_complete,  \* _handle_incomplete's cmd_on_complete (Optional)
    pout,             \* the ProcessorOutput of the last finished event (the result of a call)
    last,             \* the last operation of the event, with the fields as it found them
    selected,         \* DirAggProcessor._selected (Optional)
    cfg,              \* DirAggProcessor._cfg: the dict, as its items [k, v] in file order
    lstview           \* the rows of the host's list view, as last rendered by DirAgg

winvars == <<allwins, selected_win, orderby, alias, alias_file, exclusions>>

histvars == <<hists, pointer, cmd_prefix, max_entries, save_rownum, prefix>>

procvars == <<pc, pinput, cmds, cmd_on_complete, pout, last>>

diraggvars == <<selected, cfg, lstview>>

vars == <<winvars, histvars, procvars, diraggvars>>

(***************************************************************************)
(* WinExcluder and WinManager                                              *)
(***************************************************************************)

RECURSIVE is_excluded(_, _)
\* WinExcluder.is_excluded: the first rule that matches decides.
is_excluded(rules, winfo) ==
    IF rules = <<>> THEN FALSE
    ELSE LET title == Head(rules).title
             exe   == Head(rules).exe
         IN  IF title # "" /\ exe # "" /\ title = winfo.title /\ exe = winfo.exe
             THEN TRUE
             ELSE IF title # "" /\ title = winfo.title THEN TRUE
             ELSE IF exe # "" /\ exe = winfo.exe THEN TRUE
             ELSE is_excluded(Tail(rules), winfo)

\* dict.get(winfo, "") on the alias dict al.
get_alias(al, winfo) ==
    IF \E i \in 1..Len(al) : al[i].k = winfo
    THEN al[CHOOSE i \in 1..Len(al) : al[i].k = winfo].v
    ELSE ""

\* get_sortkey of WinManager.wins
get_sortkey(ob, al, mwin) ==
    IF ob = "alias" THEN get_alias(al, mwin.winfo)
    ELSE IF ob = "title" THEN mwin.winfo.title
    ELSE mwin.winfo.exe

RECURSIVE DisplayedFrom(_, _)
\* The positions i..Len(aw) of aw whose window is displayed, in list order.
DisplayedFrom(aw, i) ==
    IF i > Len(aw) THEN <<>>
    ELSE (IF aw[i].is_displayed THEN <<i>> ELSE <<>>) \o DisplayedFrom(aw, i + 1)

RECURSIVE InsertSorted(_, _, _, _, _)
\* One step of a stable sort: w goes before the first element with a larger key.
InsertSorted(sorted, w, aw, ob, al) ==
    IF sorted = <<>> THEN <<w>>
    ELSE IF StrLess(get_sortkey(ob, al, aw[w]), get_sortkey(ob, al, aw[Head(sorted)]))
         THEN <<w>> \o sorted
         ELSE <<Head(sorted)>> \o InsertSorted(Tail(sorted), w, aw, ob, al)

\* A sorted() that leaves the list as it is.
SortedAsListed(ws, aw, ob, al) == ws

RECURSIVE Sorted(_, _, _, _)
\* sorted(ws, key=get_sortkey): stable, ascending.
Sorted(ws, aw, ob, al) ==
    IF ws = <<>> THEN <<>>
    ELSE InsertSorted(Sorted(SubSeq(ws, 1, Len(ws) - 1), aw, ob, al),
                      ws[Len(ws)], aw, ob, al)

\* WinManager.wins for the given fields: positions in aw, in display order.
WinsOf(aw, ob, al) ==
    IF ob # "None" THEN Sorted(DisplayedFrom(aw, 1), aw, ob, al)
    ELSE DisplayedFrom(aw, 1)

wins == WinsOf(allwins, orderby, alias)

\* list.index(x) on a sequence of positions, 0-based; -1 stands for ValueError.
IndexOf(seq, v) ==
    IF \E i \in 1..Len(seq) : seq[i] = v
    THEN (CHOOSE i \in 1..Len(seq) : seq[i] = v /\ \A j \in 1..(i - 1) : seq[j] # v) - 1
    ELSE -1

\* WinManager.selected_index
selected_index == IF selected_win = 0 THEN 0 ELSE IndexOf(wins, selected_win)

RECURSIVE ResetLoopCountsExcluded(_, _, _, _, _, _)
\* A reset whose numbers count the excluded windows too.
ResetLoopCountsExcluded(winlist, rules, selected_winfo, aw, sel, num) ==
    IF winlist = <<>> THEN [allwins |-> aw, selected_win |-> sel]
    ELSE LET winfo == Head(winlist)
         IN  IF is_excluded(rules, winfo)
             THEN ResetLoopCountsExcluded(Tail(winlist), rules, selected_winfo, aw, sel,
                                          num + 1)
             ELSE ResetLoopCountsExcluded(Tail(winlist), rules, selected_winfo,
                            Append(aw, [num |-> num, winfo |-> winfo, is_displayed |-> TRUE]),
                            IF Some(winfo) = selected_winfo THEN Len(aw) + 1 ELSE sel,
                            num + 1)

RECURSIVE ResetLoop(_, _, _, _, _, _)
\* The loop of WinManager.reset over winlist; the result is [allwins, selected_win].
ResetLoop(winlist, rules, selected_winfo, aw, sel, num) ==
    IF winlist = <<>> THEN [allwins |-> aw, selected_win |-> sel]
    ELSE LET winfo == Head(winlist)
         IN  IF is_excluded(rules, winfo)
             THEN ResetLoop(Tail(winlist), rules, selected_winfo, aw, sel, num)
             ELSE ResetLoop(Tail(winlist), rules, selected_winfo,
                            Append(aw, [num |-> num, winfo |-> winfo, is_displayed |-> TRUE]),
                            IF Some(winfo) = selected_winfo THEN Len(aw) + 1 ELSE sel,
                            num + 1)

\* A reset that keeps the order key.
ResetOrderbyKeep(ob) == ob

\* The _orderby WinManager.reset leaves.
ResetOrderby(ob) == "None"

\* A reset that always selects the first window.
ResetSelectedFirst(r) == IF Len(r.allwins) > 0 THEN 1 ELSE 0

\* The _selected_win WinManager.reset leaves, r being the result of its loop.
ResetSelected(r) ==
    IF r.selected_win = 0 /\ Len(r.allwins) > 0 THEN 1 ELSE r.selected_win

\* WinManager.reset with WinControl.list() = winlist.
reset(winlist) ==
    LET selected_winfo == IF selected_win # 0 THEN Some(allwins[selected_win].winfo) ELSE None
        r == ResetLoop(winlist, exclusions, selected_winfo, <<>>, 0, 1)
    IN  /\ allwins' = r.allwins
        /\ orderby' = ResetOrderby(orderby)
        /\ selected_win' = ResetSelected(r)

\* update_selected_win of WinManager.update
update_selected_win(pin) ==
    IF pin.was_hidden THEN 0
    ELSE IF pin.selnum >= 0 /\ Len(wins) > pin.selnum THEN wins[pin.selnum + 1]
    ELSE selected_win

\* WinManager.update
\* A WinManager.update that leaves the windows as the last event's filters left them.
updateKeepsHidden(pin) ==
    /\ selected_win' = update_selected_win(pin)
    /\ allwins' = allwins

update(pin) ==
    /\ selected_win' = update_selected_win(pin)
    /\ allwins' = [i \in 1..Len(allwins) |-> [allwins[i] EXCEPT !.is_displayed = TRUE]]

\* getwintext: the field a filter reads; "alias" is the getwintext=None default.
wintext(field, al, mwin) ==
    IF field = "title" THEN mwin.winfo.title
    ELSE IF field = "exe" THEN mwin.winfo.exe
    ELSE get_alias(al, mwin.winfo)

\* A should_display that leaves the empty window text to StrCompare.
shouldDisplayAnyText(cmdtext, field, isexact, al, mwin) ==
    IF isexact THEN exact(cmdtext, wintext(field, al, mwin))
    ELSE choice(cmdtext, wintext(field, al, mwin))

\* should_display of WinManager.filter
should_display(cmdtext, field, isexact, al, mwin) ==
    IF wintext(field, al, mwin) = "" THEN FALSE
    ELSE IF isexact THEN exact(cmdtext, wintext(field, al, mwin))
    ELSE choice(cmdtext, wintext(field, al, mwin))

\* A filter that never moves the selection to the window before it.
RepairSelectedDrop(sel, prev_displayed_win) == 0

\* A filter that leaves the selection on the window it hides.
RepairSelectedStay(sel, prev_displayed_win) == sel

\* The selection WinManager.filter leaves when it hides the selected window sel.
RepairSelected(sel, prev_displayed_win) ==
    IF prev_displayed_win # 0 THEN prev_displayed_win ELSE 0

RECURSIVE FilterLoop(_, _, _, _, _, _, _, _)
\* The loop of WinManager.filter over ws = self.wins; the result is [allwins, selected_win].
FilterLoop(ws, cmdtext, field, isexact, al, aw, sel, prev_displayed_win) ==
    IF ws = <<>> THEN [allwins |-> aw, selected_win |-> sel]
    ELSE LET win  == Head(ws)
             disp == should_display(cmdtext, field, isexact, al, aw[win])
             aw2  == [aw EXCEPT ![win].is_displayed = disp]
             sel2 == IF ~disp /\ win = sel THEN RepairSelected(sel, prev_displayed_win) ELSE sel
         IN  FilterLoop(Tail(ws), cmdtext, field, isexact, al, aw2, sel2,
                        IF disp THEN win ELSE prev_displayed_win)

\* A filter that walks every window, the hidden ones too.
filterEveryWindow(cmdtext, field, isexact) ==
    LET r == FilterLoop([i \in 1..Len(allwins) |-> i], cmdtext, field, isexact, alias,
                        allwins, selected_win, 0)
    IN  /\ allwins' = r.allwins
        /\ selected_win' = r.selected_win

\* WinManager.filter
filter(cmdtext, field, isexact) ==
    LET r == FilterLoop(wins, cmdtext, field, isexact, alias, allwins, selected_win, 0)
    IN  /\ allwins' = r.allwins
        /\ selected_win' = r.selected_win

\* A set_orderby that accepts the full names only.
SetOrderbyFullName(text) ==
    IF text \in {"title", "exe", "alias"} THEN text ELSE "None"

\* WinManager.set_orderby: the new _orderby.
set_orderby(text) ==
    IF text = "" THEN "None"
    ELSE IF StartsWith("title", text) THEN "title"
    ELSE IF StartsWith("exe", text) THEN "exe"
    ELSE IF StartsWith("alias", text) THEN "alias"
    ELSE "None"

\* WinManager.set_orderby: the value it returns.
set_orderby_returns(text) ==
    IF text = "" THEN FALSE
    ELSE IF StartsWith("title", text) THEN TRUE
    ELSE IF StartsWith("exe", text) THEN TRUE
    ELSE IF StartsWith("alias", text) THEN TRUE
    ELSE FALSE

\* The positions of al without position i.
Without(al, i) == SubSeq(al, 1, i - 1) \o SubSeq(al, i + 1, Len(al))

\* A set_alias that leaves the alias with its previous owner.
PopOwnerKeep(al, a) == al

\* self._alias.pop(alias_lookup.get(alias, None), None): alias_lookup maps each
\* value to the last key that holds it.
PopOwner(al, a) ==
    IF \E i \in 1..Len(al) : al[i].v = a
    THEN Without(al, CHOOSE i \in 1..Len(al) :
                        al[i].v = a /\ \A j \in (i + 1)..Len(al) : al[j].v # a)
    ELSE al

\* self._alias[winfo] = a
Assign(al, winfo, a) ==
    IF \E i \in 1..Len(al) : al[i].k = winfo
    THEN [i \in 1..Len(al) |-> IF al[i].k = winfo THEN [al[i] EXCEPT !.v = a] ELSE al[i]]
    ELSE Append(al, [k |-> winfo, v |-> a])

RECURSIVE OutlistKeepEmpty(_, _)
\* A _save_alias_file that prunes only the windows that are not listed.
OutlistKeepEmpty(al, aw) ==
    IF al = <<>> THEN <<>>
    ELSE (IF ~\E i \in 1..Len(aw) : aw[i].winfo = Head(al).k
          THEN <<>> ELSE <<Head(al)>>) \o OutlistKeepEmpty(Tail(al), aw)

RECURSIVE OutlistKeepAbsent(_, _)
\* A _save_alias_file that prunes only the empty aliases.
OutlistKeepAbsent(al, aw) ==
    IF al = <<>> THEN <<>>
    ELSE (IF Head(al).v = "" THEN <<>> ELSE <<Head(al)>>)
         \o OutlistKeepAbsent(Tail(al), aw)

RECURSIVE Outlist(_, _)
\* outlist of _save_alias_file: the items that are not pruned.
Outlist(al, aw) ==
    IF al = <<>> THEN <<>>
    ELSE (IF Head(al).v = "" \/ ~\E i \in 1..Len(aw) : aw[i].winfo = Head(al).k
          THEN <<>> ELSE <<Head(al)>>) \o Outlist(Tail(al), aw)

\* WinManager._save_alias_file on the dict al.
save_alias_file(al) ==
    /\ alias_file' = Outlist(al, allwins)
    /\ alias' = Outlist(al, allwins)

\* WinManager.set_alias(mwin, a): mwin is a position in allwins, 0 for None.
set_alias(mwin, a) ==
    IF mwin = 0 THEN UNCHANGED <<alias, alias_file>>
    ELSE save_alias_file(Assign(PopOwner(alias, a), allwins[mwin].winfo, a))

\* WinManager.delete_all_alias
delete_all_alias == save_alias_file(<<>>)


(***************************************************************************)
(* DirAggProcessor                                                         *)
(***************************************************************************)

DIRAGG_PREFIX == ">"

\* The directories of the file system: walkdirs(path) for each path that exists,
\* as the name and the full path of each directory found.
FsDirs(path) ==
    CASE path = "C" -> <<[name |-> "fin", dpath |-> "C-fin"],
                         [name |-> ".git", dpath |-> "C-.git"]>>
      [] path = "D" -> <<[name |-> "__x", dpath |-> "D-__x"],
                         [name |-> "tax", dpath |-> "D-tax"]>>
      [] OTHER -> <<>>

\* Dir(path).exists()
DirExists(path) == path \in {"C", "D"}

\* self._cfg.keys() as a set.
CfgKeys(c) == {c[i].k : i \in 1..Len(c)}

\* self._cfg[key], key being one of the keys.
CfgGet(c, key) == c[CHOOSE i \in 1..Len(c) : c[i].k = key].v

\* DirAggProcessor.use_processor: the value it returns.
use_processor(pin) ==
    IF Len(pin.cmd) = 0 THEN FALSE ELSE StartsWith(pin.cmd, DIRAGG_PREFIX)

\* update: cmdtext = pinput.cmd[1:].lstrip()
DirCmdText(pin) == LStrip(SubSeq(pin.cmd, 2, Len(pin.cmd)))

\* An update that ignores the OUTOF key.
LevelKeepOnOutof(pin) == selected

\* update: _selected after the test of KeyKind.OUTOF.
LevelAfterOutof(pin) == IF pin.key = "OUTOF" THEN None ELSE selected

RECURSIVE RootRows(_, _)
\* _show_root: one row per category that matches cmdtext.
RootRows(c, cmdtext) ==
    IF c = <<>> THEN <<>>
    ELSE (IF choice(cmdtext, Head(c).k) THEN <<<<Head(c).k>>>> ELSE <<>>)
         \o RootRows(Tail(c), cmdtext)

RECURSIVE PathRows(_, _, _)
\* _show_selected: the rows of one path, dirs being what walkdirs has left.
PathRows(dirs, path, cmdtext) ==
    IF dirs = <<>> THEN <<>>
    ELSE (IF \/ StartsWith(Head(dirs).name, ".")
             \/ StartsWith(Head(dirs).name, "__")
             \/ ~choice(cmdtext, Head(dirs).dpath)
          THEN <<>> ELSE <<<<Head(dirs).name, path>>>>)
         \o PathRows(Tail(dirs), path, cmdtext)

RECURSIVE CategoryRows(_, _)
\* _show_selected: the rows of the paths of the selected category.
CategoryRows(paths, cmdtext) ==
    IF paths = <<>> THEN <<>>
    ELSE (IF DirExists(Head(paths)) THEN PathRows(FsDirs(Head(paths)), Head(paths), cmdtext)
          ELSE <<>>) \o CategoryRows(Tail(paths), cmdtext)

RECURSIVE CategoryOuttext(_)
\* _show_selected: the lines of outtext after the first.
CategoryOuttext(paths) ==
    IF paths = <<>> THEN <<>>
    ELSE (IF DirExists(Head(paths)) THEN <<>> ELSE <<"Path not found: " \o Head(paths)>>)
         \o CategoryOuttext(Tail(paths))

\* A ProcessorOutput of DirAgg: the fields of the main processor's and the text.
DirOutput(kind, rows, selnum, out) ==
    [kind |-> kind, cmd |-> IF kind = "cmd" THEN Some(DIRAGG_PREFIX) ELSE None,
     hide |-> kind = "hide", raised |-> kind = "raised", show |-> None,
     rows |-> rows, selnum |-> selnum, out |-> out]

\* DirAggProcessor._show_root
show_root(pin) ==
    IF pin.selrow # None /\ (pin.is_complete \/ pin.key = "INTO")
    THEN /\ selected' = Some(pin.selrow[1][1])
         /\ pout' = DirOutput("cmd", <<>>, 0, <<>>)
         /\ lstview' = lstview
    ELSE /\ selected' = None
         /\ pout' = DirOutput("rows", RootRows(cfg, DirCmdText(pin)), pin.selnum,
                              <<"Select a DirAgg">>)
         /\ lstview' = RootRows(cfg, DirCmdText(pin))

\* DirAggProcessor._show_selected: unpacking a missing row or a row that is not a
\* name and a path raises, and so does a category that is not a key of _cfg.
show_selected(pin) ==
    /\ selected' = selected
    /\ IF pin.is_complete
       THEN /\ pout' = IF pin.selrow = None \/ Len(pin.selrow[1]) # 2
                       THEN DirOutput("raised", <<>>, 0, <<>>)
                       ELSE DirOutput("hide", <<>>, 0, <<>>)
            /\ lstview' = lstview
       ELSE IF selected[1] \notin CfgKeys(cfg)
            THEN /\ pout' = DirOutput("raised", <<>>, 0, <<>>)
                 /\ lstview' = lstview
            ELSE LET rows == CategoryRows(CfgGet(cfg, selected[1]), DirCmdText(pin))
                 IN  /\ pout' = DirOutput("rows", rows, pin.selnum,
                                          <<"DirAgg selected: " \o selected[1]>>
                                          \o CategoryOuttext(CfgGet(cfg, selected[1])))
                     /\ lstview' = rows

\* DirAggProcessor.update
DirAggUpdate(pin) ==
    IF LevelAfterOutof(pin) = None THEN show_root(pin) ELSE show_selected(pin)

(***************************************************************************)
(* HistStore and HistManager                                               *)
(***************************************************************************)

\* get_selrowtext(pinput, rownum): the cell of the selected row, '' when there is none.
get_selrowtext(pin) == IF pin.selrow = None THEN "" ELSE pin.selrow[1]

\* Whether HistStore.add's loop stops after an append that left n entries.
AddLoopFull(n, max) == n >= max

RECURSIVE AddLoopNoDedup(_, _, _)
\* A loop that appends every old entry, whatever its key.
AddLoopNoDedup(hs, new_hists, max) ==
    IF hs = <<>> THEN new_hists
    ELSE LET n2 == Append(new_hists, Head(hs))
         IN  IF AddLoopFull(Len(n2), max) THEN n2 ELSE AddLoopNoDedup(Tail(hs), n2, max)

RECURSIVE AddLoop(_, _, _)
\* The loop of HistStore.add over the old entries hs.
AddLoop(hs, new_hists, max) ==
    IF hs = <<>> THEN new_hists
    ELSE LET n2 == IF \E i \in 1..Len(new_hists) : new_hists[i].cmd = Head(hs).cmd
                   THEN new_hists
                   ELSE Append(new_hists, Head(hs))
         IN  IF AddLoopFull(Len(n2), max) THEN n2 ELSE AddLoop(Tail(hs), n2, max)

\* The entry HistStore.add puts first.
NewEntry(pin) ==
    [cmd |-> Strip(pin.cmd),
     row |-> IF save_rownum = None THEN None ELSE Some(get_selrowtext(pin))]

\* HistStore.add: the new _hists.
HistAdd(hs, pin) == AddLoop(hs, <<NewEntry(pin)>>, max_entries)

RECURSIVE HistFilter(_, _)
\* HistStore._filter(prefix), prefix Optional
HistFilter(hs, pfx) ==
    IF hs = <<>> THEN <<>>
    ELSE (IF StartsWith(Head(hs).cmd, IF pfx = None THEN "" ELSE pfx[1])
          THEN <<Head(hs)>> ELSE <<>>) \o HistFilter(Tail(hs), pfx)

\* HistStore.len(prefix)
HistLen(hs, pfx) == Len(HistFilter(hs, pfx))

\* HistStore.get(prefix, idx): None on IndexError; a negative idx counts from the end.
HistGet(hs, pfx, idx) ==
    LET f == HistFilter(hs, pfx)
    IN  IF 0 <= idx /\ idx < Len(f) THEN Some(f[idx + 1])
        ELSE IF idx < 0 /\ -idx <= Len(f) THEN Some(f[Len(f) + idx + 1])
        ELSE None

\* A _try_set_cmd_prefix that takes the text of every navigation event.
TrySetAlways(cur, cmd) == Some(cmd)

\* HistManager._try_set_cmd_prefix: the new _cmd_prefix.
try_set_cmd_prefix(cur, cmd) ==
    IF cur = None THEN Some(cmd)
    ELSE IF cmd = "" THEN None
    ELSE cur

\* A wrapper that resets only for an event that found the window hidden.
WrapperResetsHiddenOnly(pin) == pin.was_hidden

\* update_histmgr: whether the wrapper calls histmgr.reset() first.
WrapperResets(pin) == pin.was_hidden \/ pin.cmd = prefix

\* _pointer and _cmd_prefix once the wrapper has (or has not) called reset().
BasePointer(pin) == IF WrapperResets(pin) THEN -1 ELSE pointer

BaseCmdPrefix(pin) == IF WrapperResets(pin) THEN None ELSE cmd_prefix

\* HistManager.get_next: the new _pointer, from pointer p over n filtered entries.
NextPointer(p, n) == IF p + 1 >= n THEN n - 1 ELSE p + 1

\* A get_prev that moves as get_next does.
PrevPointerOlder(p, n) == IF p + 1 >= n THEN n - 1 ELSE p + 1

\* HistManager.get_prev: the new _pointer.
PrevPointer(p, n) == IF p - 1 < 0 THEN 0 ELSE p - 1

\* What get_next/get_prev return once _pointer is p: the recalled text, None for
\* an empty filtered history; raised is the AttributeError of None.cmd.
Recalled(hs, pfx, p) ==
    IF HistLen(hs, pfx) = 0 THEN [cmd |-> None, raised |-> FALSE]
    ELSE IF HistGet(hs, pfx, p) = None THEN [cmd |-> None, raised |-> TRUE]
    ELSE [cmd |-> Some(HistGet(hs, pfx, p)[1].cmd), raised |-> FALSE]

NoOutput == [kind |-> "none", cmd |-> None, hide |-> FALSE, raised |-> FALSE,
             show |-> None, rows |-> <<>>, selnum |-> 0]

\* update_histmgr with KeyKind.NEXT: histmgr.get_next(pinput.cmd)
get_next(pin) ==
    LET pfx == try_set_cmd_prefix(BaseCmdPrefix(pin), pin.cmd)
        p   == NextPointer(BasePointer(pin), HistLen(hists, pfx))
        r   == Recalled(hists, pfx, p)
    IN  /\ cmd_prefix' = pfx
        /\ pointer' = p
        /\ pout' = [NoOutput EXCEPT !.kind = "recall", !.cmd = r.cmd, !.raised = r.raised]
        /\ UNCHANGED <<hists, max_entries, save_rownum, prefix>>

\* update_histmgr with KeyKind.PREV: histmgr.get_prev(pinput.cmd)
get_prev(pin) ==
    LET pfx == try_set_cmd_prefix(BaseCmdPrefix(pin), pin.cmd)
        p   == PrevPointer(BasePointer(pin), HistLen(hists, pfx))
        r   == Recalled(hists, pfx, p)
    IN  /\ cmd_prefix' = pfx
        /\ pointer' = p
        /\ pout' = [NoOutput EXCEPT !.kind = "recall", !.cmd = r.cmd, !.raised = r.raised]
        /\ UNCHANGED <<hists, max_entries, save_rownum, prefix>>

\* A wrapper that adds the text of every event that has one, commit or not.
PassThroughAddAlways(pin) ==
    /\ cmd_prefix' = BaseCmdPrefix(pin)
    /\ pointer' = BasePointer(pin)
    /\ hists' = IF pin.cmd # "" THEN HistAdd(hists, pin) ELSE hists
    /\ UNCHANGED <<max_entries, save_rownum, prefix>>

\* update_histmgr with another key: the optional reset and the optional add.
PassThrough(pin) ==
    /\ cmd_prefix' = BaseCmdPrefix(pin)
    /\ pointer' = BasePointer(pin)
    /\ hists' = IF pin.is_complete /\ pin.cmd # "" THEN HistAdd(hists, pin) ELSE hists
    /\ UNCHANGED <<max_entries, save_rownum, prefix>>

(***************************************************************************)
(* load_output and the two loads of Processor.__init__.                    *)
(*                                                                         *)
(* A JSON value is a record: t is "str", "list", "obj" or "null", s the    *)
(* text of a string, items the elements of a list or the values of an      *)
(* object, keys the keys of an object.                                     *)
(***************************************************************************)

JNull == [t |-> "null", s |-> "", items |-> <<>>, keys |-> <<>>]

JStr(s) == [t |-> "str", s |-> s, items |-> <<>>, keys |-> <<>>]

JList(items) == [t |-> "list", s |-> "", items |-> items, keys |-> <<>>]

JObj(keys, items) == [t |-> "obj", s |-> "", items |-> items, keys |-> keys]

\* The character at position i of s (1-based), "" past the end.
Peek(s, i) == IF i >= 1 /\ i <= Len(s) THEN CharAt(s, i) ELSE ""

\* A decoder that gave up.
JFail == [ok |-> FALSE, val |-> JNull, next |-> 0]

JOk(val, next) == [ok |-> TRUE, val |-> val, next |-> next]

\* A string literal at position i of s: the text up to the next quote (the blobs
\* hold no escapes).
DecodeString(s, i) ==
    IF Peek(s, i) # "\"" THEN JFail
    ELSE LET close == IndexFrom(s, "\"", i)
         IN  IF close = -1 THEN JFail
             ELSE JOk(JStr(SubSeq(s, i + 1, close)), close + 2)

RECURSIVE DecodeValue(_, _)
RECURSIVE DecodeItems(_, _, _)
RECURSIVE DecodeMembers(_, _, _, _)
\* The JSON value at position i of s.
DecodeValue(s, i) ==
    CASE Peek(s, i) = "\"" -> DecodeString(s, i)
      [] Peek(s, i) = "[" ->
            IF Peek(s, i + 1) = "]" THEN JOk(JList(<<>>), i + 2)
            ELSE DecodeItems(s, i + 1, <<>>)
      [] Peek(s, i) = "{" ->
            IF Peek(s, i + 1) = "}" THEN JOk(JObj(<<>>, <<>>), i + 2)
            ELSE DecodeMembers(s, i + 1, <<>>, <<>>)
      [] Peek(s, i) = "n" ->
            IF i + 3 <= Len(s) /\ SubSeq(s, i, i + 3) = "null"
            THEN JOk(JNull, i + 4) ELSE JFail
      [] OTHER -> JFail

\* The elements of a list from position i of s, acc being those already read.
DecodeItems(s, i, acc) ==
    LET r == DecodeValue(s, i)
    IN  IF ~r.ok THEN JFail
        ELSE IF Peek(s, r.next) = "," THEN DecodeItems(s, r.next + 1, Append(acc, r.val))
        ELSE IF Peek(s, r.next) = "]" THEN JOk(JList(Append(acc, r.val)), r.next + 1)
        ELSE JFail

\* The members of an object from position i of s.
DecodeMembers(s, i, keys, items) ==
    LET k == DecodeString(s, i)
    IN  IF ~k.ok \/ Peek(s, k.next) # ":" THEN JFail
        ELSE LET r == DecodeValue(s, k.next + 1)
             IN  IF ~r.ok THEN JFail
                 ELSE IF Peek(s, r.next) = ","
                      THEN DecodeMembers(s, r.next + 1, Append(keys, k.val.s),
                                         Append(items, r.val))
                 ELSE IF Peek(s, r.next) = "}"
                      THEN JOk(JObj(Append(keys, k.val.s), Append(items, r.val)),
                               r.next + 1)
                 ELSE JFail

\* ujson.loads(raw): the value, or raised when raw is not one JSON value.
loads(raw) ==
    LET r == DecodeValue(raw, 1)
    IN  IF r.ok /\ r.next = Len(raw) + 1
        THEN [raised |-> FALSE, val |-> r.val]
        ELSE [raised |-> TRUE, val |-> JNull]

\* load_output(out_file) for a file that exists and holds raw: an empty file gives
\* its empty text back.
load_output(raw) ==
    IF raw = "" THEN [raised |-> FALSE, val |-> JStr(raw)]
    ELSE loads(raw)

\* bool(v) is False
Falsy(v) ==
    \/ v.t = "null"
    \/ v.t = "str" /\ v.s = ""
    \/ v.t \in {"list", "obj"} /\ v.items = <<>>

\* What iterating over v yields: the elements of a list, the characters of a
\* string, the keys of an object.
Elements(v) ==
    CASE v.t = "list" -> v.items
      [] v.t = "str" -> [i \in 1..Len(v.s) |-> JStr(CharAt(v.s, i))]
      [] OTHER -> [i \in 1..Len(v.keys) |-> JStr(v.keys[i])]

\* HistEntry(*entry) raises: entry cannot be unpacked into exactly a cmd and a row.
UnpackRaises(entry) == entry.t = "null" \/ Len(Elements(entry)) # 2

\* A loaded row: None for null, the text otherwise.
RowOf(v) == IF v.t = "null" THEN None ELSE Some(v.s)

\* HistStore._load on a file that holds raw: raised, or the new _hists.
HistLoad(raw) ==
    LET r == load_output(raw)
        loaded == IF Falsy(r.val) THEN JList(<<>>) ELSE r.val
        entries == Elements(loaded)
    IN  IF r.raised THEN [raised |-> TRUE, hists |-> <<>>]
        ELSE IF Len(entries) > 0 /\ loaded.t = "obj"
             THEN [raised |-> TRUE, hists |-> <<>>]
        ELSE IF Len(entries) > 0 /\ entries[1].t = "str"
             THEN [raised |-> FALSE,
                   hists |-> [i \in 1..Len(entries) |->
                                 [cmd |-> entries[i].s, row |-> None]]]
        ELSE IF \E i \in 1..Len(entries) : UnpackRaises(entries[i])
             THEN [raised |-> TRUE, hists |-> <<>>]
        ELSE [raised |-> FALSE,
              hists |-> [i \in 1..Len(entries) |->
                            [cmd |-> Elements(entries[i])[1].s,
                             row |-> RowOf(Elements(entries[i])[2])]]]

\* alias[WinInfo(**i[0])] = i[1] raises: i has no two elements, or i[0] is not an
\* object with exactly the fields of WinInfo.
ItemRaises(i) ==
    \/ i.t \notin {"list", "str"}
    \/ Len(Elements(i)) < 2
    \/ Elements(i)[1].t # "obj"
    \/ Len(Elements(i)[1].keys) # 2
    \/ {Elements(i)[1].keys[1], Elements(i)[1].keys[2]} # {"title", "exe"}

\* The field f of the object v.
Member(v, f) == v.items[CHOOSE n \in 1..Len(v.keys) : v.keys[n] = f]

\* WinManager._load_alias_file on a file that holds raw: raised, or the new _alias.
AliasLoad(raw) ==
    LET r == load_output(raw)
        inlist == Elements(r.val)
    IN  IF r.raised THEN [raised |-> FALSE, alias |-> <<>>]
        ELSE IF r.val.t = "null" THEN [raised |-> TRUE, alias |-> <<>>]
        ELSE IF \E i \in 1..Len(inlist) : ItemRaises(inlist[i])
             THEN [raised |-> TRUE, alias |-> <<>>]
        ELSE [raised |-> FALSE,
              alias |-> [i \in 1..Len(inlist) |->
                            [k |-> [title |-> Member(Elements(inlist[i])[1], "title").s,
                                    exe |-> Member(Elements(inlist[i])[1], "exe").s],
                             v |-> Elements(inlist[i])[2].s]]]

(***************************************************************************)
(* Bounds and inputs.                                                      *)
(***************************************************************************)

\* The longest list WinControl.list() returns.
MaxWins == 3

\* The largest configured HistStore max_entries.
MaxEntries == 3

WinInfos ==
    { [title |-> "ab", exe |-> "x"],
      [title |-> "b",  exe |-> "x"],
      [title |-> "Ba", exe |-> "xy"] }

RECURSIVE SeqsUpTo(_, _)
\* The sequences over S of length at most n.
SeqsUpTo(S, n) ==
    IF n = 0 THEN {<<>>}
    ELSE LET shorter == SeqsUpTo(S, n - 1)
         IN  shorter \cup {Append(q, e) : q \in {r \in shorter : Len(r) = n - 1}, e \in S}

\* What WinControl.list() may return: no window is listed twice.
WinLists == {l \in SeqsUpTo(WinInfos, MaxWins) : \A i, j \in 1..Len(l) : l[i] = l[j] => i = j}

\* The input texts of the window events.
WinCmds == {"", "a", ";e y", ";g k", ";s k", ";s", ";d", ";l", ";o t", ";q", ";t ", ";g;e "}

Keys == {"NONE", "PREV", "NEXT"}

PInputs(texts, keys, selnums, selrows) ==
    [cmd : texts, is_complete : BOOLEAN, was_hidden : BOOLEAN, key : keys,
     selnum : selnums, selrow : selrows]

\* update_selected_win does not read the highlighted row of an event that found
\* the window hidden: such events carry -1.
WinInputs ==
    {pin \in PInputs(WinCmds, {"NONE"}, -1..(MaxWins - 1), {None}) :
        pin.was_hidden => pin.selnum = -1}

NoInput == [cmd |-> "", is_complete |-> FALSE, was_hidden |-> TRUE, key |-> "NONE",
            selnum |-> -1, selrow |-> None]

NoLast == [op |-> "none", allwins |-> <<>>, selected_win |-> 0, orderby |-> "None",
           alias |-> <<>>, hists |-> <<>>, pointer |-> -1, cmd_prefix |-> None]

\* The record of an operation: its name and the fields as it found them.
Last(op) ==
    [op |-> op, allwins |-> allwins, selected_win |-> selected_win, orderby |-> orderby,
     alias |-> alias, hists |-> hists, pointer |-> pointer, cmd_prefix |-> cmd_prefix]

(***************************************************************************)
(* Processor.update, one step per WinManager call.                         *)
(***************************************************************************)

\* Processor.update up to parse: WinManager.update, then the commands.
Begin(pin) ==
    /\ pc = "idle"
    /\ pin.key = "NONE"
    /\ update(pin)
    /\ pinput' = pin
    /\ cmds' = parse(pin.cmd)
    /\ cmd_on_complete' = None
    /\ pc' = IF pin.cmd = "" /\ parse(pin.cmd) = <<>> THEN "reset" ELSE "incomplete"
    /\ pout' = NoOutput
    /\ last' = Last("update")
    /\ UNCHANGED <<orderby, alias, alias_file, exclusions>>

\* Processor.update: self._winmgr.reset()
Reset ==
    /\ pc = "reset"
    /\ \E winlist \in WinLists : reset(winlist)
    /\ pc' = "incomplete"
    /\ last' = Last("reset")
    /\ UNCHANGED <<alias, alias_file, exclusions, pinput, cmds, cmd_on_complete, pout>>

\* _handle_incomplete: a TITLE, EXE or GET command.
Filter ==
    /\ pc = "incomplete"
    /\ cmds # <<>>
    /\ Head(cmds).kind \in {"TITLE", "EXE", "GET"}
    /\ filter(Head(cmds).text,
              CASE Head(cmds).kind = "TITLE" -> "title"
                []  Head(cmds).kind = "EXE" -> "exe"
                []  OTHER -> "alias",
              FALSE)
    /\ cmds' = Tail(cmds)
    /\ last' = Last("filter")
    /\ UNCHANGED <<orderby, alias, alias_file, exclusions, pc, pinput, cmd_on_complete, pout>>

\* A LIMIT that filters like an EXE command: progressive, not exact.
LimitInexact ==
    /\ pc = "incomplete"
    /\ cmds # <<>>
    /\ Head(cmds).kind = "LIMIT"
    /\ IF selected_win # 0
       THEN filter(allwins[selected_win].winfo.exe, "exe", FALSE)
       ELSE UNCHANGED <<allwins, selected_win>>
    /\ cmds' = Tail(cmds)
    /\ last' = Last("limit")
    /\ UNCHANGED <<orderby, alias, alias_file, exclusions, pc, pinput, cmd_on_complete, pout>>

\* _handle_incomplete: a LIMIT command.
Limit ==
    /\ pc = "incomplete"
    /\ cmds # <<>>
    /\ Head(cmds).kind = "LIMIT"
    /\ IF selected_win # 0
       THEN filter(allwins[selected_win].winfo.exe, "exe", TRUE)
       ELSE UNCHANGED <<allwins, selected_win>>
    /\ cmds' = Tail(cmds)
    /\ last' = Last("limit")
    /\ UNCHANGED <<orderby, alias, alias_file, exclusions, pc, pinput, cmd_on_complete, pout>>

\* A _handle_incomplete that keeps an ORDER command for the commit.
OrderDeferred ==
    /\ pc = "incomplete"
    /\ cmds # <<>>
    /\ Head(cmds).kind = "ORDER"
    /\ cmd_on_complete' = Some(Head(cmds))
    /\ cmds' = Tail(cmds)
    /\ UNCHANGED <<winvars, pc, pinput, pout, last>>

\* _handle_incomplete: an ORDER command.
Order ==
    /\ pc = "incomplete"
    /\ cmds # <<>>
    /\ Head(cmds).kind = "ORDER"
    /\ orderby' = set_orderby(Head(cmds).text)
    /\ cmds' = Tail(cmds)
    /\ last' = Last("set_orderby")
    /\ UNCHANGED <<allwins, selected_win, alias, alias_file, exclusions, pc, pinput,
                   cmd_on_complete, pout>>

\* A _handle_incomplete that deletes the aliases as soon as it keeps a command.
DeferDeleteNow ==
    /\ pc = "incomplete"
    /\ cmds # <<>>
    /\ Head(cmds).kind \in {"SET", "DELETE", "UNKNOWN"}
    /\ cmd_on_complete' = Some(Head(cmds))
    /\ cmds' = Tail(cmds)
    /\ delete_all_alias
    /\ UNCHANGED <<allwins, selected_win, orderby, exclusions, pc, pinput, pout, last>>

\* A _handle_incomplete that keeps the first SET, DELETE or UNKNOWN command of the text.
DeferKeepsFirst ==
    /\ pc = "incomplete"
    /\ cmds # <<>>
    /\ Head(cmds).kind \in {"SET", "DELETE", "UNKNOWN"}
    /\ cmd_on_complete' = IF cmd_on_complete = None THEN Some(Head(cmds)) ELSE cmd_on_complete
    /\ cmds' = Tail(cmds)
    /\ UNCHANGED <<winvars, pc, pinput, pout, last>>

\* _handle_incomplete: a SET, DELETE or UNKNOWN command is kept for the commit.
Defer ==
    /\ pc = "incomplete"
    /\ cmds # <<>>
    /\ Head(cmds).kind \in {"SET", "DELETE", "UNKNOWN"}
    /\ cmd_on_complete' = Some(Head(cmds))
    /\ cmds' = Tail(cmds)
    /\ UNCHANGED <<winvars, pc, pinput, pout, last>>

\* A _handle_complete(None) that hides the input window whatever is selected.
ActivateAlwaysHide ==
    /\ pc = "incomplete"
    /\ cmds = <<>>
    /\ pinput.is_complete
    /\ cmd_on_complete = None
    /\ pout' = [NoOutput EXCEPT !.kind = "hide", !.hide = TRUE,
                                !.show = IF selected_win # 0
                                         THEN Some(allwins[selected_win].winfo) ELSE None]
    /\ pc' = "done"
    /\ UNCHANGED <<winvars, pinput, cmds, cmd_on_complete, last>>

\* _handle_complete(None): activate the selected window.
Activate ==
    /\ pc = "incomplete"
    /\ cmds = <<>>
    /\ pinput.is_complete
    /\ cmd_on_complete = None
    /\ pout' = IF selected_win # 0
               THEN [NoOutput EXCEPT !.kind = "hide", !.hide = TRUE,
                                     !.show = Some(allwins[selected_win].winfo)]
               ELSE NoOutput
    /\ pc' = "done"
    /\ UNCHANGED <<winvars, pinput, cmds, cmd_on_complete, last>>

\* The line _handle_complete appends to self._outtext for the command it runs.
CompleteLine(cmd) ==
    CASE cmd.kind = "SET" -> IF cmd.text # "" THEN "Set alias: " \o cmd.text ELSE "Cleared alias"
      [] cmd.kind = "DELETE" -> "All aliases deleted"
      [] OTHER -> "Unknown command"

\* The output of _handle_complete(cmd): add_cmd(''), no rows and no text; outtext
\* is self._outtext as the event leaves it, the status line of the next render.
CompleteOutput(line) ==
    [kind |-> "cmd", cmd |-> Some(""), hide |-> FALSE, raised |-> FALSE,
     show |-> None, rows |-> <<>>, selnum |-> 0, outtext |-> <<line>>]

\* _handle_complete(cmd): run the kept command and clear the input.
Complete ==
    /\ pc = "incomplete"
    /\ cmds = <<>>
    /\ pinput.is_complete
    /\ cmd_on_complete # None
    /\ CASE cmd_on_complete[1].kind = "SET" ->
                /\ set_alias(selected_win, cmd_on_complete[1].text)
                /\ last' = Last("set_alias")
         [] cmd_on_complete[1].kind = "DELETE" ->
                /\ delete_all_alias
                /\ last' = Last("delete_all_alias")
         [] OTHER ->
                /\ UNCHANGED <<alias, alias_file>>
                /\ last' = Last("unknown")
    /\ pout' = CompleteOutput(CompleteLine(cmd_on_complete[1]))
    /\ pc' = "done"
    /\ UNCHANGED <<allwins, selected_win, orderby, exclusions, pinput, cmds, cmd_on_complete>>

\* _render_rows
Render ==
    /\ pc = "incomplete"
    /\ cmds = <<>>
    /\ ~pinput.is_complete
    /\ pout' = [NoOutput EXCEPT !.kind = "rows", !.rows = wins, !.selnum = selected_index]
    /\ pc' = "done"
    /\ UNCHANGED <<winvars, pinput, cmds, cmd_on_complete, last>>

\* Processor.update returns: the output goes to the host, which waits for the next event.
Return ==
    /\ pc = "done"
    /\ pc' = "idle"
    /\ pinput' = NoInput
    /\ cmds' = <<>>
    /\ cmd_on_complete' = None
    /\ pout' = NoOutput
    /\ last' = NoLast
    /\ UNCHANGED winvars

\* The exclusion files of the model: none, or one rule that names an executable.
ExclusionFiles == {<<>>, <<[title |-> "", exe |-> "xy"]>>}

\* The state once Processor.__init__ has run with an empty, just created alias
\* blob and one of the exclusion files.
InitWin ==
    /\ allwins = <<>>
    /\ selected_win = 0
    /\ orderby = "None"
    /\ alias = <<>>
    /\ alias_file = <<>>
    /\ exclusions \in ExclusionFiles
    /\ hists = <<>>
    /\ pointer = -1
    /\ cmd_prefix = None
    /\ max_entries = 1000
    /\ save_rownum = None
    /\ prefix = ""
    /\ pc = "idle"
    /\ pinput = NoInput
    /\ cmds = <<>>
    /\ cmd_on_complete = None
    /\ pout = NoOutput
    /\ last = NoLast
    /\ selected = None
    /\ cfg = <<>>
    /\ lstview = <<>>

\* The window side of the main processor's events.  The history wrapper neither
\* reads nor writes the WinManager, and Processor.update neither reads nor writes
\* the history, so the history fields stay as they are here; SpecHist has them.
NextWin ==
    \/ \E pin \in WinInputs : Begin(pin) /\ UNCHANGED <<histvars, diraggvars>>
    \/ Reset /\ UNCHANGED <<histvars, diraggvars>>
    \/ Filter /\ UNCHANGED <<histvars, diraggvars>>
    \/ Limit /\ UNCHANGED <<histvars, diraggvars>>
    \/ Order /\ UNCHANGED <<histvars, diraggvars>>
    \/ Defer /\ UNCHANGED <<histvars, diraggvars>>
    \/ Activate /\ UNCHANGED <<histvars, diraggvars>>
    \/ Complete /\ UNCHANGED <<histvars, diraggvars>>
    \/ Render /\ UNCHANGED <<histvars, diraggvars>>
    \/ Return /\ UNCHANGED <<histvars, diraggvars>>

SpecWin == InitWin /\ [][NextWin]_vars

(***************************************************************************)
(* The update_histmgr wrapper, one step per event.                         *)
(***************************************************************************)

\* The input texts of the main processor's history events.
HistTails == {"", "a", "ab", "aa", "b", "c"}

\* The input texts of the LaunchProcessor's history events, after its prefix.
LaunchTails == {"", "a", "a ", "b"}

\* The cell of the highlighted row that a history entry keeps.
HistRows == {None, Some("p")}

\* The events of the history: a field the wrapper does not read on an event's
\* path (the commit flag and the highlighted row of a PREV/NEXT event, the row of
\* an event that is no commit or whose store keeps no row) has one value.
HistInputs ==
    {pin \in PInputs({prefix \o t : t \in IF prefix = "" THEN HistTails ELSE LaunchTails},
                     Keys, {-1}, HistRows) :
        /\ pin.key # "NONE" => ~pin.is_complete
        /\ (~pin.is_complete \/ save_rownum = None) => pin.selrow = None}

\* update_histmgr on a KeyKind.PREV event
RecallPrev(pin) ==
    /\ pc = "idle"
    /\ pin.key = "PREV"
    /\ get_prev(pin)
    /\ pinput' = pin
    /\ pc' = "done"
    /\ last' = Last("get_prev")
    /\ UNCHANGED <<cmds, cmd_on_complete>>

\* update_histmgr on a KeyKind.NEXT event
RecallNext(pin) ==
    /\ pc = "idle"
    /\ pin.key = "NEXT"
    /\ get_next(pin)
    /\ pinput' = pin
    /\ pc' = "done"
    /\ last' = Last("get_next")
    /\ UNCHANGED <<cmds, cmd_on_complete>>

\* update_histmgr on any other event, up to the call of the wrapped update.
Forward(pin) ==
    /\ pc = "idle"
    /\ pin.key = "NONE"
    /\ PassThrough(pin)
    /\ pinput' = pin
    /\ pout' = NoOutput
    /\ pc' = "done"
    /\ last' = Last("forward")
    /\ UNCHANGED <<cmds, cmd_on_complete>>

\* The state once a processor with a history has been constructed on a just
\* created history blob: the main Processor (prefix '', no row kept) or the
\* LaunchProcessor (prefix '.', the row's first cell kept).
InitHist ==
    /\ allwins = <<>>
    /\ selected_win = 0
    /\ orderby = "None"
    /\ alias = <<>>
    /\ alias_file = <<>>
    /\ exclusions = <<>>
    /\ hists = <<>>
    /\ pointer = -1
    /\ cmd_prefix = None
    /\ max_entries \in 1..MaxEntries
    /\ \/ prefix = "" /\ save_rownum = None
       \/ prefix = "." /\ save_rownum = Some(0)
    /\ pc = "idle"
    /\ pinput = NoInput
    /\ cmds = <<>>
    /\ cmd_on_complete = None
    /\ pout = NoOutput
    /\ last = NoLast
    /\ selected = None
    /\ cfg = <<>>
    /\ lstview = <<>>

\* The history side of a processor's events: the wrapped update neither reads
\* nor writes the history, so the WinManager fields stay as they are here.
NextHist ==
    \/ \E pin \in HistInputs : RecallPrev(pin) /\ UNCHANGED <<winvars, diraggvars>>
    \/ \E pin \in HistInputs : RecallNext(pin) /\ UNCHANGED <<winvars, diraggvars>>
    \/ \E pin \in HistInputs : Forward(pin) /\ UNCHANGED <<winvars, diraggvars>>
    \/ Return /\ UNCHANGED <<histvars, diraggvars>>

SpecHist == InitHist /\ [][NextHist]_vars

(***************************************************************************)
(* The main processor's whole handler: update_histmgr around Processor.update. *)
(***************************************************************************)

\* The input texts of the whole handler's events.
FullCmds == {"", ";s k", "a;o t"}

\* What WinControl.list() returns for the whole handler: at most one window.
FullWinLists == {l \in WinLists : Len(l) <= 1}

\* The events of the whole handler: a PREV/NEXT event may carry the commit flag;
\* the highlighted row is read only by an event that reaches WinManager.update
\* with the window shown.
FullInputs ==
    {pin \in PInputs(FullCmds, Keys, -1..0, {None}) :
        (pin.was_hidden \/ pin.key # "NONE") => pin.selnum = -1}

\* update_histmgr on an event with no navigation key, then Processor.update up
\* to parse.
Enter(pin) ==
    /\ PassThrough(pin)
    /\ Begin(pin)

\* Processor.update: self._winmgr.reset(), WinControl.list() being one of FullWinLists.
ResetFull ==
    /\ pc = "reset"
    /\ \E winlist \in FullWinLists : reset(winlist)
    /\ pc' = "incomplete"
    /\ last' = Last("reset")
    /\ UNCHANGED <<alias, alias_file, exclusions, pinput, cmds, cmd_on_complete, pout>>

\* The state once the main Processor has been constructed on just created blobs
\* and no exclusion file.
InitFull ==
    /\ InitWin
    /\ exclusions = <<>>

NextFull ==
    \/ \E pin \in FullInputs : Enter(pin) /\ UNCHANGED diraggvars
    \/ \E pin \in FullInputs : RecallPrev(pin) /\ UNCHANGED <<winvars, diraggvars>>
    \/ \E pin \in FullInputs : RecallNext(pin) /\ UNCHANGED <<winvars, diraggvars>>
    \/ ResetFull /\ UNCHANGED <<histvars, diraggvars>>
    \/ Filter /\ UNCHANGED <<histvars, diraggvars>>
    \/ Order /\ UNCHANGED <<histvars, diraggvars>>
    \/ Defer /\ UNCHANGED <<histvars, diraggvars>>
    \/ Activate /\ UNCHANGED <<histvars, diraggvars>>
    \/ Complete /\ UNCHANGED <<histvars, diraggvars>>
    \/ Render /\ UNCHANGED <<histvars, diraggvars>>
    \/ Return /\ UNCHANGED <<histvars, diraggvars>>

SpecFull == InitFull /\ [][NextFull]_vars

(***************************************************************************)
(* The window events over a universe of Notepad windows.                   *)
(***************************************************************************)

\* Two Notepad windows and a window of another executable.
NotepadWinInfos ==
    { [title |-> "Untitled - Notepad", exe |-> "notepad.exe"],
      [title |-> "a.txt - Notepad",    exe |-> "notepad.exe"],
      [title |-> "Calculator",         exe |-> "calc.exe"] }

\* What WinControl.list() may return over that universe.
NotepadWinLists ==
    {l \in SeqsUpTo(NotepadWinInfos, MaxWins) : \A i, j \in 1..Len(l) : l[i] = l[j] => i = j}

\* The input text of the end-to-end example.
NotepadExample == ";e notepad.exe;o title"

\* The input texts over that universe.
NotepadCmds == {"", NotepadExample, ";o e", ";l"}

\* The events over that universe: none of them is a commit.
NotepadInputs ==
    {pin \in PInputs(NotepadCmds, {"NONE"}, -1..(MaxWins - 1), {None}) :
        /\ ~pin.is_complete
        /\ pin.was_hidden => pin.selnum = -1}

\* Processor.update: self._winmgr.reset(), WinControl.list() being one of NotepadWinLists.
ResetNotepad ==
    /\ pc = "reset"
    /\ \E winlist \in NotepadWinLists : reset(winlist)
    /\ pc' = "incomplete"
    /\ last' = Last("reset")
    /\ UNCHANGED <<alias, alias_file, exclusions, pinput, cmds, cmd_on_complete, pout>>

NextNotepad ==
    \/ \E pin \in NotepadInputs : Begin(pin) /\ UNCHANGED <<histvars, diraggvars>>
    \/ ResetNotepad /\ UNCHANGED <<histvars, diraggvars>>
    \/ Filter /\ UNCHANGED <<histvars, diraggvars>>
    \/ Limit /\ UNCHANGED <<histvars, diraggvars>>
    \/ Order /\ UNCHANGED <<histvars, diraggvars>>
    \/ Render /\ UNCHANGED <<histvars, diraggvars>>
    \/ Return /\ UNCHANGED <<histvars, diraggvars>>

SpecNotepad == InitFull /\ [][NextNotepad]_vars

(***************************************************************************)
(* The window events with several completion commands in one text.         *)
(***************************************************************************)

\* The input texts: the empty text, one completion command, and two of them in
\* each order of kinds.
CommitCmds == {"", ";s k", ";s k;d", ";d;s k", ";s k;q", ";q;d", ";s k;s m", ";s m;s"}

\* What WinControl.list() returns here: at most two windows.
CommitWinLists == {l \in WinLists : Len(l) <= 2}

CommitInputs ==
    {pin \in PInputs(CommitCmds, {"NONE"}, -1..1, {None}) :
        pin.was_hidden => pin.selnum = -1}

\* Processor.update: self._winmgr.reset(), WinControl.list() being one of CommitWinLists.
ResetCommit ==
    /\ pc = "reset"
    /\ \E winlist \in CommitWinLists : reset(winlist)
    /\ pc' = "incomplete"
    /\ last' = Last("reset")
    /\ UNCHANGED <<alias, alias_file, exclusions, pinput, cmds, cmd_on_complete, pout>>

NextCommit ==
    \/ \E pin \in CommitInputs : Begin(pin) /\ UNCHANGED <<histvars, diraggvars>>
    \/ ResetCommit /\ UNCHANGED <<histvars, diraggvars>>
    \/ Defer /\ UNCHANGED <<histvars, diraggvars>>
    \/ Activate /\ UNCHANGED <<histvars, diraggvars>>
    \/ Complete /\ UNCHANGED <<histvars, diraggvars>>
    \/ Render /\ UNCHANGED <<histvars, diraggvars>>
    \/ Return /\ UNCHANGED <<histvars, diraggvars>>

SpecCommit == InitFull /\ [][NextCommit]_vars

(***************************************************************************)
(* Processor.__init__ on the history file and the alias file it finds.     *)
(***************************************************************************)

\* History files as HistStore._save writes them (an empty file is a just created
\* one).
HistWritten ==
    {"", "[]", "[\"a\"]", "[\"a\",\"b\"]", "[[\"a\",\"r\"]]", "[[\"a\",null]]"}

\* History files that are not JSON: cut short, or overwritten.
HistMalformed == {"[", "[\"a", "[\"a\",", "[[\"a\",\"r\"]", "x"}

\* History files that are JSON of another shape.
HistOther == {"null", "[[\"a\"]]", "\"ab\"", "{\"a\":\"b\"}"}

HistBlobs == HistWritten \cup HistMalformed \cup HistOther

\* Alias files as _save_alias_file writes them.
AliasWritten ==
    {"", "[]", "[[{\"title\":\"ab\",\"exe\":\"x\"},\"k\"]]",
     "[[{\"exe\":\"x\",\"title\":\"b\"},\"k\"],[{\"title\":\"Ba\",\"exe\":\"xy\"},\"m\"]]"}

\* Alias files that are not JSON.
AliasMalformed ==
    {"[", "[[{\"title\":\"ab\"", "[[{\"title\":\"ab\",\"exe\":\"x\"},\"k\"", "x"}

\* Alias files that are JSON of another shape.
AliasOther == {"null", "[[\"ab\",\"k\"]]", "[[{\"title\":\"ab\"},\"k\"]]"}

AliasBlobs == AliasWritten \cup AliasMalformed \cup AliasOther

\* The state before Processor.__init__: pinput holds the text of the two files.
InitLoad ==
    /\ allwins = <<>>
    /\ selected_win = 0
    /\ orderby = "None"
    /\ alias = <<>>
    /\ alias_file = <<>>
    /\ exclusions = <<>>
    /\ hists = <<>>
    /\ pointer = -1
    /\ cmd_prefix = None
    /\ max_entries = 1000
    /\ save_rownum = None
    /\ prefix = ""
    /\ pc = "idle"
    /\ pinput \in [hist_blob : HistBlobs, alias_blob : AliasBlobs]
    /\ cmds = <<>>
    /\ cmd_on_complete = None
    /\ pout = NoOutput
    /\ last = NoLast
    /\ selected = None
    /\ cfg = <<>>
    /\ lstview = <<>>

\* Processor.__init__: WinManager(alias_path, ...), which loads the alias file; an
\* exception ends the construction.
ConstructWinManager ==
    /\ pc = "idle"
    /\ LET r == AliasLoad(pinput.alias_blob)
       IN  /\ alias' = r.alias
           /\ pc' = IF r.raised THEN "done" ELSE "histmgr"
           /\ pout' = IF r.raised THEN [fn |-> "__init__", result |-> "raised"] ELSE pout
    /\ UNCHANGED <<allwins, selected_win, orderby, alias_file, exclusions, histvars,
                   pinput, cmds, cmd_on_complete, last>>

\* Processor.__init__: HistManager(hist_path), which loads the history file and
\* resets the cursor.
ConstructHistManager ==
    /\ pc = "histmgr"
    /\ LET r == HistLoad(pinput.hist_blob)
       IN  /\ hists' = r.hists
           /\ pout' = [fn |-> "__init__",
                       result |-> IF r.raised THEN "raised" ELSE "ok"]
    /\ pointer' = -1
    /\ cmd_prefix' = None
    /\ pc' = "done"
    /\ UNCHANGED <<winvars, max_entries, save_rownum, prefix, pinput, cmds,
                   cmd_on_complete, last>>

NextLoad ==
    \/ ConstructWinManager /\ UNCHANGED diraggvars
    \/ ConstructHistManager /\ UNCHANGED diraggvars

SpecLoad == InitLoad /\ [][NextLoad]_vars

(***************************************************************************)
(* The events of the DirAgg subprocessor.                                  *)
(***************************************************************************)

\* The locations files: categories and their paths.
CfgFiles ==
    { <<[k |-> "Fin", v |-> <<"C", "D">>]>>,
      <<[k |-> "Fin", v |-> <<"C">>], [k |-> "Med", v |-> <<"E">>]>>,
      <<[k |-> "Med", v |-> <<"E">>]>> }

\* The input texts: none, the bare prefix, the prefix with a filter, and a text
\* of another processor.
DirCmds == {"", ">", "> f", "a"}

DirKeys == {"NONE", "INTO", "OUTOF"}

\* The text of the host's input line: what the last output put there, or else what
\* the last event carried.
HostText == IF pout.kind = "cmd" THEN pout.cmd[1] ELSE pinput.cmd

\* The events the host may send now: the highlighted row is a row of the list view
\* or none; a hot key comes without the commit flag; a hot key or a commit
\* carries the text of the input line; after an output that replaced the text
\* the event of the new text comes first.
DirInputs ==
    {pin \in [cmd : DirCmds, is_complete : BOOLEAN, was_hidden : {FALSE}, key : DirKeys,
              selnum : 0..(IF lstview = <<>> THEN 0 ELSE Len(lstview) - 1),
              selrow : {None} \cup {Some(lstview[i]) : i \in 1..Len(lstview)}] :
        /\ pin.selrow # None => pin.selrow = Some(lstview[pin.selnum + 1])
        /\ pin.key # "NONE" => ~pin.is_complete
        /\ (pin.key # "NONE" \/ pin.is_complete) => pin.cmd = HostText
        /\ pout.kind = "cmd" =>
              pin.key = "NONE" /\ ~pin.is_complete /\ pin.cmd = HostText}

\* The record of a DirAgg operation: its name and the fields as it found them.
DirLast(op) == [op |-> op, selected |-> selected, cfg |-> cfg, lstview |-> lstview]

\* An event: use_processor, and update when it returned True.  The rows of
\* another processor are not kept in lstview.
DirAggEvent(pin) ==
    /\ pc = "idle"
    /\ pinput' = pin
    /\ last' = DirLast("event")
    /\ IF use_processor(pin)
       THEN DirAggUpdate(pin)
       ELSE /\ selected' = IF Len(pin.cmd) = 0 THEN None ELSE selected
            /\ pout' = NoOutput
            /\ lstview' = <<>>
    /\ UNCHANGED <<winvars, histvars, pc, cmds, cmd_on_complete, cfg>>

\* DirAggProcessor.reload_config, from the menu: the locations file may have changed.
ReloadConfig ==
    /\ pc = "idle"
    /\ pout.kind # "cmd"
    /\ \E c \in CfgFiles : cfg' = c
    /\ selected' = None
    /\ last' = DirLast("reload_config")
    /\ UNCHANGED <<winvars, histvars, pc, pinput, cmds, cmd_on_complete, pout, lstview>>

\* The state once DirAggProcessor.__init__ has run.
InitDirAgg ==
    /\ allwins = <<>>
    /\ selected_win = 0
    /\ orderby = "None"
    /\ alias = <<>>
    /\ alias_file = <<>>
    /\ exclusions = <<>>
    /\ hists = <<>>
    /\ pointer = -1
    /\ cmd_prefix = None
    /\ max_entries = 1000
    /\ save_rownum = None
    /\ prefix = DIRAGG_PREFIX
    /\ pc = "idle"
    /\ pinput = NoInput
    /\ cmds = <<>>
    /\ cmd_on_complete = None
    /\ pout = NoOutput
    /\ last = NoLast
    /\ selected = None
    /\ cfg \in CfgFiles
    /\ lstview = <<>>

NextDirAgg ==
    \/ \E pin \in DirInputs : DirAggEvent(pin)
    \/ ReloadConfig

SpecDirAgg == InitDirAgg /\ [][NextDirAgg]_vars

(***************************************************************************)
(* An editing session of recalls: the older key, the recalled text fed back. *)
(***************************************************************************)

\* The keys of the histories a session may find, by processor prefix: for the
\* LaunchProcessor the bare prefix is among them.
RecallKeys(pfx) == IF pfx = "" THEN {"a", "ab", "b"} ELSE {".", ".a", ".b"}

\* The histories as HistStore.add leaves them: no key twice, newest first, the
\* row kept by the LaunchProcessor only.
RecallHists(pfx) ==
    {[i \in 1..Len(ks) |-> [cmd |-> ks[i], row |-> IF pfx = "" THEN None ELSE Some("p")]] :
        ks \in {s \in SeqsUpTo(RecallKeys(pfx), MaxEntries) :
                    \A i, j \in 1..Len(s) : s[i] = s[j] => i = j}}

\* The start of a session: a processor with some history, the recall cursor
\* reset, and the input text as the user left it (pinput is the event to come:
\* the bare prefix or a longer text, the window shown or just opened).
InitRecall ==
    /\ allwins = <<>>
    /\ selected_win = 0
    /\ orderby = "None"
    /\ alias = <<>>
    /\ alias_file = <<>>
    /\ exclusions = <<>>
    /\ \/ prefix = "" /\ save_rownum = None
       \/ prefix = "." /\ save_rownum = Some(0)
    /\ hists \in RecallHists(prefix)
    /\ pointer = -1
    /\ cmd_prefix = None
    /\ max_entries = MaxEntries
    /\ pc = "idle"
    /\ pinput \in {pin \in PInputs({prefix, prefix \o "a"}, {"NEXT"}, {-1}, {None}) :
                      ~pin.is_complete}
    /\ cmds = <<>>
    /\ cmd_on_complete = None
    /\ pout = NoOutput
    /\ last = NoLast
    /\ selected = None
    /\ cfg = <<>>
    /\ lstview = <<>>

\* The user presses the key that moves toward older entries (KeyKind.NEXT, the
\* key of get_next) on the text the input holds.
PressOlder ==
    /\ RecallNext(pinput)
    /\ UNCHANGED <<winvars, diraggvars>>

\* The host applies pout.add_cmd: the recalled text replaces the input text, the
\* window stays shown, and the next event carries that text.
FeedBack ==
    /\ pc = "done"
    /\ pc' = "idle"
    /\ pinput' = [pinput EXCEPT !.cmd = IF pout.cmd # None THEN pout.cmd[1] ELSE @,
                                !.was_hidden = FALSE]
    /\ UNCHANGED <<winvars, histvars, cmds, cmd_on_complete, pout, last, diraggvars>>

NextRecall == PressOlder \/ FeedBack

SpecRecall == InitRecall /\ [][NextRecall]_vars

\* The user keeps pressing and the host keeps feeding the text back.
SpecRecallFair == SpecRecall /\ WF_vars(PressOlder) /\ WF_vars(FeedBack)

(***************************************************************************)
(* Calls of the StrCompare methods.                                        *)
(***************************************************************************)

\* The longest test string of a StrCompare call, the worked examples apart.
MaxTestLen == 2

\* The longest target string of a StrCompare call, the worked examples apart.
MaxTargetLen == 3

\* The characters of the StrCompare arguments: two letters, a capital, the sigil.
CmpChars == {"a", "b", "B", "'"}

RECURSIVE StringsUpTo(_, _)
\* The strings over the characters C of length at most n.
StringsUpTo(C, n) ==
    IF n = 0 THEN {""}
    ELSE LET shorter == StringsUpTo(C, n - 1)
         IN  shorter \cup {t \o c : t \in {u \in shorter : Len(u) = n - 1}, c \in C}

\* The test arguments: every short string, the tests of the README's examples, and
\* two longer tests against the README's target.
CmpTests ==
    StringsUpTo(CmpChars, MaxTestLen) \cup {"fnc", "fnace", "fnca", "'fin", "'fnc"}

\* The target arguments: every short string, and the README's example target.
CmpTargets == StringsUpTo(CmpChars, MaxTargetLen) \cup {"Finance"}

\* The state before a call StrCompare.<method>(test, target): pinput holds the
\* arguments, pout will hold the method and its result.
InitCmp ==
    /\ allwins = <<>>
    /\ selected_win = 0
    /\ orderby = "None"
    /\ alias = <<>>
    /\ alias_file = <<>>
    /\ exclusions = <<>>
    /\ hists = <<>>
    /\ pointer = -1
    /\ cmd_prefix = None
    /\ max_entries = 1000
    /\ save_rownum = None
    /\ prefix = ""
    /\ pc = "idle"
    /\ pinput \in [test : CmpTests, target : CmpTargets]
    /\ cmds = <<>>
    /\ cmd_on_complete = None
    /\ pout = NoOutput
    /\ last = NoLast
    /\ selected = None
    /\ cfg = <<>>
    /\ lstview = <<>>

\* What a call leaves besides its result.
Called ==
    /\ pc = "idle"
    /\ pc' = "done"
    /\ UNCHANGED <<winvars, histvars, pinput, cmds, cmd_on_complete, last>>

\* StrCompare.progressive(test, target)
CallProgressive ==
    /\ Called
    /\ pout' = [fn |-> "progressive", result |-> progressive(pinput.test, pinput.target)]

\* StrCompare.includes(test, target)
CallIncludes ==
    /\ Called
    /\ pout' = [fn |-> "includes", result |-> includes(pinput.test, pinput.target)]

\* StrCompare.exact(test, target)
CallExact ==
    /\ Called
    /\ pout' = [fn |-> "exact", result |-> exact(pinput.test, pinput.target)]

\* StrCompare.choice(test, target)
CallChoice ==
    /\ Called
    /\ pout' = [fn |-> "choice", result |-> choice(pinput.test, pinput.target)]

NextCmp ==
    \/ CallProgressive /\ UNCHANGED diraggvars
    \/ CallIncludes /\ UNCHANGED diraggvars
    \/ CallExact /\ UNCHANGED diraggvars
    \/ CallChoice /\ UNCHANGED diraggvars

SpecCmp == InitCmp /\ [][NextCmp]_vars

(***************************************************************************)
(* Calls of parse.                                                         *)
(***************************************************************************)

\* The longest input of a parse call, the built tokens and the examples apart.
MaxInputLen == 4

\* The characters of the short inputs of parse.
ParseChars == {";", " ", "t", "d", "o", "x"}

\* The inputs of the README's notes on the commands.
ParseExamples ==
    {";e notepad ;o title", ";e notepad;o title", "; s my alias", ";s my alias",
     ";e notepad;o title;s finanace"}

\* The parts of a one-token input: the separator, white space, a discriminator,
\* white space, a text.
ParseParts ==
    [ws1 : {"", " "},
     disc : {"t", "e", "g", "s", "o", "l", "d", "q"},
     ws2 : {"", " ", "  "}, text : {"", "x", "x ", "x y"}]

\* The input made of the parts p.
Build(p) == ";" \o p.ws1 \o p.disc \o p.ws2 \o p.text

\* The arguments of parse: an input, and the parts it was built from if any.
ParseArgs ==
    {[input |-> i, parts |-> None] :
        i \in StringsUpTo(ParseChars, MaxInputLen) \cup ParseExamples}
    \cup {[input |-> Build(p), parts |-> Some(p)] : p \in ParseParts}

\* The state before a call parse(input_cmd): pinput holds the argument.
InitParse ==
    /\ allwins = <<>>
    /\ selected_win = 0
    /\ orderby = "None"
    /\ alias = <<>>
    /\ alias_file = <<>>
    /\ exclusions = <<>>
    /\ hists = <<>>
    /\ pointer = -1
    /\ cmd_prefix = None
    /\ max_entries = 1000
    /\ save_rownum = None
    /\ prefix = ""
    /\ pc = "idle"
    /\ pinput \in ParseArgs
    /\ cmds = <<>>
    /\ cmd_on_complete = None
    /\ pout = NoOutput
    /\ last = NoLast
    /\ selected = None
    /\ cfg = <<>>
    /\ lstview = <<>>

\* parse(input_cmd)
CallParse ==
    /\ Called
    /\ pout' = [fn |-> "parse", result |-> parse(pinput.input)]

NextParse == CallParse /\ UNCHANGED diraggvars

SpecParse == InitParse /\ [][NextParse]_vars

(***************************************************************************)
(* Calls of WinManager.set_orderby.                                        *)
(***************************************************************************)

\* The longest key of a set_orderby call, the listed keys apart.
MaxKeyLen == 3

\* The characters of the short keys of set_orderby.
OrderChars == {"t", "i", "e", "x", "a", "l"}

\* The keys of set_orderby: every short one, the longer prefixes of the three
\* names, names with a character too many, and capitals.
OrderKeys ==
    StringsUpTo(OrderChars, MaxKeyLen)
    \cup {"titl", "title", "alia", "alias", "titlex", "exex", "aliass", "T", "Exe"}

\* The window lists of the set_orderby calls: none, or two windows.
OrderbyLists ==
    {l \in WinLists : Len(l) \in {0, 2} /\ \A i \in 1..Len(l) : l[i].title # "b"}

\* The fields a set_orderby call may find: the windows of a reset, some of them
\* hidden by a filter, any window selected or none, and an alias on one window
\* or none.
OrderbyFields ==
    UNION {{[allwins |-> [i \in 1..Len(l) |->
                             [num |-> i, winfo |-> l[i], is_displayed |-> d[i]]],
             selected_win |-> s, alias |-> al] :
               d \in [1..Len(l) -> BOOLEAN], s \in 0..Len(l),
               al \in {<<>>} \cup {<<[k |-> l[i], v |-> "k"]>> : i \in 1..Len(l)}} :
           l \in OrderbyLists}

\* The state before a call set_orderby(key): pinput holds the key, the order key
\* is whatever an earlier call left, and the selected window is a displayed one,
\* or none when none is displayed.
InitOrderby ==
    /\ \E f \in OrderbyFields :
          /\ IF \E i \in 1..Len(f.allwins) : f.allwins[i].is_displayed
             THEN f.selected_win \in 1..Len(f.allwins)
                  /\ f.allwins[f.selected_win].is_displayed
             ELSE f.selected_win = 0
          /\ allwins = f.allwins
          /\ selected_win = f.selected_win
          /\ alias = f.alias
          /\ alias_file = f.alias
    /\ orderby \in {"None", "title", "exe", "alias"}
    /\ exclusions = <<>>
    /\ hists = <<>>
    /\ pointer = -1
    /\ cmd_prefix = None
    /\ max_entries = 1000
    /\ save_rownum = None
    /\ prefix = ""
    /\ pc = "idle"
    /\ pinput \in [key : OrderKeys]
    /\ cmds = <<>>
    /\ cmd_on_complete = None
    /\ pout = NoOutput
    /\ last = NoLast
    /\ selected = None
    /\ cfg = <<>>
    /\ lstview = <<>>

\* A set_orderby that selects the first window of the new order.
CallSetOrderbySelectsFirst ==
    /\ pc = "idle"
    /\ pc' = "done"
    /\ orderby' = set_orderby(pinput.key)
    /\ selected_win' = LET ws == WinsOf(allwins, set_orderby(pinput.key), alias)
                       IN  IF ws = <<>> THEN 0 ELSE ws[1]
    /\ pout' = [fn |-> "set_orderby", result |-> set_orderby_returns(pinput.key)]
    /\ last' = Last("set_orderby")
    /\ UNCHANGED <<allwins, alias, alias_file, exclusions, histvars,
                   pinput, cmds, cmd_on_complete>>

\* WinManager.set_orderby(key)
CallSetOrderby ==
    /\ pc = "idle"
    /\ pc' = "done"
    /\ orderby' = set_orderby(pinput.key)
    /\ pout' = [fn |-> "set_orderby", result |-> set_orderby_returns(pinput.key)]
    /\ last' = Last("set_orderby")
    /\ UNCHANGED <<allwins, selected_win, alias, alias_file, exclusions, histvars,
                   pinput, cmds, cmd_on_complete>>

NextOrderby == CallSetOrderby /\ UNCHANGED diraggvars

SpecOrderby == InitOrderby /\ [][NextOrderby]_vars

(***************************************************************************)
(* Calls of WinManager.filter, two in a row within one event.              *)
(***************************************************************************)

\* The calls of filter: the arguments _handle_incomplete passes for a TITLE, an
\* EXE and a GET command, and the exact filter on an executable that LIMIT issues.
FilterCalls ==
    { [text |-> "a",  field |-> "title", isexact |-> FALSE],
      [text |-> "b",  field |-> "title", isexact |-> FALSE],
      [text |-> "y",  field |-> "exe",   isexact |-> FALSE],
      [text |-> "x",  field |-> "exe",   isexact |-> TRUE],
      [text |-> "xy", field |-> "exe",   isexact |-> TRUE],
      [text |-> "k",  field |-> "alias", isexact |-> FALSE],
      [text |-> "",   field |-> "alias", isexact |-> FALSE] }

\* The fields the first filter call of an event may find: the windows of a
\* reset, all displayed by WinManager.update, any window selected or none, and
\* an alias on one window or none.
ComposeFields ==
    UNION {{[allwins |-> [i \in 1..Len(l) |->
                             [num |-> i, winfo |-> l[i], is_displayed |-> TRUE]],
             selected_win |-> s, alias |-> al] :
               s \in 0..Len(l),
               al \in {<<>>} \cup {<<[k |-> l[i], v |-> "k"]>> : i \in 1..Len(l)}} :
           l \in WinLists}

\* The state before the filter calls of one event: pinput holds the two calls,
\* cmds the calls still to make, last the fields as the event found them.
InitCompose ==
    /\ \E f \in ComposeFields :
          /\ allwins = f.allwins
          /\ selected_win = f.selected_win
          /\ alias = f.alias
          /\ alias_file = f.alias
    /\ orderby \in {"None", "title", "exe", "alias"}
    /\ exclusions = <<>>
    /\ hists = <<>>
    /\ pointer = -1
    /\ cmd_prefix = None
    /\ max_entries = 1000
    /\ save_rownum = None
    /\ prefix = ""
    /\ pc = "incomplete"
    /\ pinput \in [calls : FilterCalls \X FilterCalls]
    /\ cmds = pinput.calls
    /\ cmd_on_complete = None
    /\ pout = NoOutput
    /\ last = [NoLast EXCEPT !.op = "update", !.allwins = allwins,
                             !.selected_win = selected_win, !.orderby = orderby,
                             !.alias = alias]
    /\ selected = None
    /\ cfg = <<>>
    /\ lstview = <<>>

\* WinManager.filter(text, getwintext, exact): the next call of the event.
CallFilter ==
    /\ pc = "incomplete"
    /\ cmds # <<>>
    /\ filter(Head(cmds).text, Head(cmds).field, Head(cmds).isexact)
    /\ cmds' = Tail(cmds)
    /\ pc' = IF Tail(cmds) = <<>> THEN "done" ELSE "incomplete"
    /\ UNCHANGED <<orderby, alias, alias_file, exclusions, histvars, pinput,
                   cmd_on_complete, pout, last>>

NextCompose == CallFilter /\ UNCHANGED diraggvars

SpecCompose == InitCompose /\ [][NextCompose]_vars

(***************************************************************************)
(* Calls of WinManager.reset under the rules of an exclusion file.         *)
(***************************************************************************)

\* The rules of an exclusion file: a title, an exe, both or neither ("" for an
\* absent key), the values being those of windows or of no window.
ExclusionRules == [title : {"", "ab", "b"}, exe : {"", "x", "xy"}]

\* The exclusion files: up to two rules.
RuleFiles == SeqsUpTo(ExclusionRules, 2)

\* The state before a call of reset: the rules are loaded, pinput holds what
\* WinControl.list() returns.
InitExclude ==
    /\ allwins = <<>>
    /\ selected_win = 0
    /\ orderby = "None"
    /\ alias = <<>>
    /\ alias_file = <<>>
    /\ exclusions \in RuleFiles
    /\ hists = <<>>
    /\ pointer = -1
    /\ cmd_prefix = None
    /\ max_entries = 1000
    /\ save_rownum = None
    /\ prefix = ""
    /\ pc = "reset"
    /\ pinput \in [winlist : WinLists]
    /\ cmds = <<>>
    /\ cmd_on_complete = None
    /\ pout = NoOutput
    /\ last = NoLast
    /\ selected = None
    /\ cfg = <<>>
    /\ lstview = <<>>

\* WinManager.reset()
CallReset ==
    /\ pc = "reset"
    /\ reset(pinput.winlist)
    /\ pc' = "done"
    /\ last' = Last("reset")
    /\ UNCHANGED <<alias, alias_file, exclusions, histvars, pinput, cmds, cmd_on_complete, pout>>

NextExclude == CallReset /\ UNCHANGED diraggvars

SpecExclude == InitExclude /\ [][NextExclude]_vars

(***************************************************************************)
(* Properties of the WinManager, checked under SpecWin.                    *)
(***************************************************************************)

\* The window an operation found selected, as an Optional WinInfo.
LastSelectedWinfo ==
    IF last.selected_win = 0 THEN None ELSE Some(last.allwins[last.selected_win].winfo)

\* The display order an operation found.
LastWins == WinsOf(last.allwins, last.orderby, last.alias)

\* _handle_complete has just run set_alias(mwin, a) for a selected window and a # "".
SetAliasDone ==
    /\ pc = "done"
    /\ last.op = "set_alias"
    /\ last.selected_win # 0
    /\ cmd_on_complete[1].text # ""

\* C1: no two items of the alias dict share a key or a non-empty alias, and once
\* set_alias(B, a) has run, B holds a and no other window does.
C1_AliasUnique ==
    /\ \A i, j \in 1..Len(alias) :
          i # j => /\ alias[i].k # alias[j].k
                   /\ alias[i].v # "" => alias[i].v # alias[j].v
    /\ SetAliasDone =>
          /\ get_alias(alias, LastSelectedWinfo[1]) = cmd_on_complete[1].text
          /\ \A w \in WinInfos \ {LastSelectedWinfo[1]} :
                get_alias(alias, w) # cmd_on_complete[1].text

\* C1 witness: the alias was another window's, and that window has none now.
C1_Witness ==
    /\ SetAliasDone
    /\ \E i \in 1..Len(last.alias) :
          /\ last.alias[i].v = cmd_on_complete[1].text
          /\ last.alias[i].k # LastSelectedWinfo[1]
          /\ get_alias(alias, last.alias[i].k) = ""
    /\ get_alias(alias, LastSelectedWinfo[1]) = cmd_on_complete[1].text

\* WinManager.filter has just run (from a TITLE, EXE or GET command, or from LIMIT).
FilterDone ==
    \/ last.op = "filter"
    \/ last.op = "limit" /\ last.selected_win # 0

\* The windows before position p of the display order ws that are displayed now.
VisibleBefore(ws, p) == {i \in 1..(p - 1) : allwins[ws[i]].is_displayed}

\* C2: after filter, a selected window that stays visible stays selected; one that
\* is hidden hands the selection to the nearest window before it in the display
\* order that is still visible, and to nothing when there is none.
C2_SelectionRepair ==
    (FilterDone /\ last.selected_win # 0) =>
        LET p == IndexOf(LastWins, last.selected_win) + 1
            before == VisibleBefore(LastWins, p)
        IN  /\ p >= 1
            /\ IF allwins[last.selected_win].is_displayed
               THEN selected_win = last.selected_win
               ELSE IF before = {} THEN selected_win = 0
               ELSE selected_win = LastWins[CHOOSE i \in before : \A j \in before : j <= i]

\* C2 witness: the selected window was hidden, another visible window came between
\* the new selection and it in the old order.
C2_Witness ==
    /\ FilterDone
    /\ last.selected_win # 0
    /\ ~allwins[last.selected_win].is_displayed
    /\ selected_win # 0
    /\ IndexOf(LastWins, selected_win) + 1 < IndexOf(LastWins, last.selected_win)

\* C3 as claimed: after filter, order_by, reset and after a whole event, a non-empty
\* visible set has a visible selection and an empty one has none.
C3_Original ==
    (\/ FilterDone
     \/ last.op \in {"set_orderby", "reset"}
     \/ pc = "done") =>
        IF wins # <<>>
        THEN selected_win # 0 /\ allwins[selected_win].is_displayed
        ELSE selected_win = 0

\* C3 as amended: the selection is empty or a visible window of the list, so it is
\* empty when nothing is visible; a reset of a non-empty list leaves a selection.
C3_SelectionVisibleOrEmpty ==
    /\ selected_win = 0 \/ (selected_win \in 1..Len(allwins) /\ allwins[selected_win].is_displayed)
    /\ wins = <<>> => selected_win = 0
    /\ (last.op = "reset" /\ allwins # <<>>) => selected_win # 0

\* C3 witness: a filter left windows visible and none selected.
C3_Witness ==
    /\ FilterDone
    /\ pc = "done"
    /\ last.selected_win # 0
    /\ wins # <<>>
    /\ selected_win = 0

\* C4: after reset the list holds no excluded window; the window equal to the one
\* selected before is selected if the new list has it; otherwise the first window
\* is, and nothing in an empty list.
C4_ResetKeepsSelection ==
    last.op = "reset" =>
      /\ \A i \in 1..Len(allwins) : ~is_excluded(exclusions, allwins[i].winfo)
      /\ IF LastSelectedWinfo # None
           /\ \E i \in 1..Len(allwins) : allwins[i].winfo = LastSelectedWinfo[1]
         THEN selected_win # 0 /\ allwins[selected_win].winfo = LastSelectedWinfo[1]
         ELSE IF allwins # <<>> THEN selected_win = 1
         ELSE selected_win = 0

\* C4 witness: with an exclusion rule loaded, the selected window moved to another,
\* later position of the list.
C4_Witness ==
    /\ last.op = "reset"
    /\ exclusions # <<>>
    /\ LastSelectedWinfo # None
    /\ selected_win > 1
    /\ selected_win # last.selected_win
    /\ allwins[selected_win].winfo = LastSelectedWinfo[1]

\* C5 as claimed: an order key set before reset is the order key after it.
C5_Original ==
    (last.op = "reset" /\ last.orderby \in {"title", "exe", "alias"}) =>
        orderby = last.orderby

\* C5 as amended: reset clears the order key.
C5_ResetClearsOrder == last.op = "reset" => orderby = "None"

\* C5 witness: a reset that found the list ordered by title.
C5_Witness ==
    /\ last.op = "reset"
    /\ last.orderby = "title"
    /\ orderby = "None"

\* The command _handle_incomplete has just handled.
LastCmd == parse(pinput.cmd)[Len(parse(pinput.cmd)) - Len(cmds)]

\* The text of window i that the filter of the command just handled read.
LastFieldText(i) ==
    IF LastCmd.kind = "TITLE" THEN allwins[i].winfo.title
    ELSE IF LastCmd.kind = "EXE" THEN allwins[i].winfo.exe
    ELSE get_alias(alias, allwins[i].winfo)

\* _handle_incomplete has just run a filter with an empty text.
EmptyFilterDone == last.op = "filter" /\ LastCmd.text = ""

\* C17 as claimed: a filter with an empty text, on any field, leaves the display
\* flags and the selection as they were.
C17_Original ==
    EmptyFilterDone => (allwins = last.allwins /\ selected_win = last.selected_win)

\* C17 as amended: a filter with an empty text keeps a visible window visible
\* exactly when the field it reads is not empty for that window; when every
\* visible window has the field, or none is visible, nothing changes.
C17_EmptyFilter ==
    EmptyFilterDone =>
        /\ Len(allwins) = Len(last.allwins)
        /\ \A i \in 1..Len(allwins) :
              /\ allwins[i].winfo = last.allwins[i].winfo
              /\ allwins[i].is_displayed <=>
                    (last.allwins[i].is_displayed /\ LastFieldText(i) # "")
        /\ (\A i \in 1..Len(allwins) :
                last.allwins[i].is_displayed => LastFieldText(i) # "") =>
              (allwins = last.allwins /\ selected_win = last.selected_win)

\* C17 witness: an alias filter with an empty text hid a window with no alias,
\* the selected one, and left another window visible.
C17_Witness ==
    /\ EmptyFilterDone
    /\ LastCmd.kind = "GET"
    /\ last.selected_win # 0
    /\ ~allwins[last.selected_win].is_displayed
    /\ wins # <<>>

\* C18 as claimed: an order-by command of an event without the commit flag leaves
\* the order key as it was.
C18_Original ==
    (last.op = "set_orderby" /\ ~pinput.is_complete) => orderby = last.orderby

\* C18 as amended: an order-by command sets the order key while the text is
\* handled, on an event with or without the commit flag, and is not kept for the
\* commit: the event whose text is ";o t" ends with the order key title and with
\* no kept command.
C18_OrderImmediate ==
    /\ (last.op = "set_orderby" /\ LastCmd.text = "t") => orderby = "title"
    /\ (pc = "done" /\ pinput.cmd = ";o t") =>
          /\ orderby = "title"
          /\ cmd_on_complete = None

\* C18 witness: an event without the commit flag found no order key and ended
\* with the order key title.
C18_Witness ==
    /\ pc = "done"
    /\ ~pinput.is_complete
    /\ last.op = "set_orderby"
    /\ last.orderby = "None"
    /\ orderby = "title"

\* C19: no step of an event without the commit flag changes the alias dict;
\* set_alias and delete_all_alias run only on an event with the commit flag, and
\* delete_all_alias leaves no alias.
C19_AliasOnCommit ==
    /\ (pc # "idle" /\ ~pinput.is_complete) => alias = last.alias
    /\ last.op \in {"set_alias", "delete_all_alias"} => pinput.is_complete
    /\ last.op = "delete_all_alias" => alias = <<>>
    /\ alias_file = alias

\* C19 witness: an event without the commit flag whose text is ";d" ended with the
\* aliases it found.
C19_Witness ==
    /\ pc = "done"
    /\ ~pinput.is_complete
    /\ pinput.cmd = ";d"
    /\ cmd_on_complete # None
    /\ alias # <<>>
    /\ alias = last.alias

\* Processor.update has returned from _handle_complete.
CommitDone == pc = "done" /\ pinput.is_complete /\ pinput.key = "NONE"

\* C20 as claimed: a commit with no kept command activates the selected window
\* and hides the input window; a commit with a kept command activates nothing
\* and replaces the input text with the empty string.
C20_Original ==
    CommitDone =>
        IF cmd_on_complete = None
        THEN /\ selected_win # 0
             /\ pout.hide
             /\ pout.show = Some(allwins[selected_win].winfo)
        ELSE /\ pout.show = None
             /\ ~pout.hide
             /\ pout.cmd = Some("")

\* C20 as amended: a commit with no kept command activates the selected window
\* and hides the input window if a window is selected, and does nothing and
\* returns no output if none is; a commit with a kept command activates nothing
\* and replaces the input text with the empty string.
C20_CommitDispatch ==
    CommitDone =>
        IF cmd_on_complete = None
        THEN IF selected_win # 0
             THEN /\ pout.hide
                  /\ pout.show = Some(allwins[selected_win].winfo)
                  /\ pout.cmd = None
             ELSE pout = NoOutput
        ELSE /\ pout.show = None
             /\ ~pout.hide
             /\ pout.cmd = Some("")

\* C20 witness: a commit with no kept command and no selected window, windows
\* being visible, returned no output.
C20_Witness ==
    /\ CommitDone
    /\ cmd_on_complete = None
    /\ selected_win = 0
    /\ wins # <<>>
    /\ pout = NoOutput

\* _handle_incomplete has just handled a LIMIT command.
LimitDone == last.op = "limit"

ClearAliasDone ==
    /\ pc = "done"
    /\ last.op = "set_alias"
    /\ last.selected_win # 0
    /\ cmd_on_complete[1].text = ""

\* C27: neither the alias dict nor the alias file ever holds an item whose alias
\* is the empty string, and once set_alias(B, "") has run, get_alias(B) is "" and
\* B has no item in the dict.
C27_NoEmptyAlias ==
    /\ \A i \in 1..Len(alias) : alias[i].v # ""
    /\ \A i \in 1..Len(alias_file) : alias_file[i].v # ""
    /\ ClearAliasDone =>
          /\ get_alias(alias, LastSelectedWinfo[1]) = ""
          /\ \A i \in 1..Len(alias) : alias[i].k # LastSelectedWinfo[1]

\* set_alias(B, "") has run on a window B that held an alias.
C27_Witness ==
    /\ ClearAliasDone
    /\ get_alias(last.alias, LastSelectedWinfo[1]) # ""
    /\ get_alias(alias, LastSelectedWinfo[1]) = ""

\* A set_alias for a selected window or a delete_all_alias has just run: both end
\* in _save_alias_file.
PersistDone ==
    /\ pc = "done"
    /\ \/ last.op = "set_alias" /\ last.selected_win # 0
       \/ last.op = "delete_all_alias"

\* The windows of _allwins.
Universe == {allwins[i].winfo : i \in 1..Len(allwins)}

\* C28: once a set_alias or a delete_all_alias has written the alias file, every
\* item of the alias dict and of the file is a window of _allwins, and the dict
\* and the file hold the same items.
C28_PruneOnPersist ==
    PersistDone =>
        /\ \A i \in 1..Len(alias) : alias[i].k \in Universe
        /\ \A i \in 1..Len(alias_file) : alias_file[i].k \in Universe
        /\ alias_file = alias

\* A set_alias on a listed window has dropped the alias of a window that is no
\* longer listed, and that alias was not the one being set.
C28_Witness ==
    /\ PersistDone
    /\ last.op = "set_alias"
    /\ \E i \in 1..Len(last.alias) :
          /\ last.alias[i].k \notin Universe
          /\ last.alias[i].v # ""
          /\ last.alias[i].v # cmd_on_complete[1].text
          /\ get_alias(alias, last.alias[i].k) = ""

\* C31: the windows of the list carry the numbers 1..N in list order, which is the
\* order in which reset met the windows that are not excluded, and no operation
\* other than reset changes the list or the number of a window.
C31_Ordinals ==
    /\ \A i \in 1..Len(allwins) : allwins[i].num = i
    /\ last.op \in {"update", "filter", "limit", "set_orderby", "set_alias",
                    "delete_all_alias", "unknown"} =>
          /\ Len(allwins) = Len(last.allwins)
          /\ \A i \in 1..Len(allwins) :
                /\ allwins[i].num = last.allwins[i].num
                /\ allwins[i].winfo = last.allwins[i].winfo

\* A reset has numbered two windows after leaving out an excluded one that was
\* listed first.
C31_Witness ==
    /\ last.op = "reset"
    /\ exclusions # <<>>
    /\ Len(allwins) = 2
    /\ allwins[1].num = 1
    /\ allwins[2].num = 2
    /\ allwins[1].winfo.title = "b"

\* The arguments of the filter call that a TITLE, EXE or GET command makes.
FilterCallOf(cmd) ==
    [text |-> cmd.text,
     field |-> CASE cmd.kind = "TITLE" -> "title" [] cmd.kind = "EXE" -> "exe" [] OTHER -> "alias",
     isexact |-> FALSE]

\* The window mwin passes every TITLE, EXE and GET command of the text.
PassesText(text, al, mwin) ==
    \A k \in 1..Len(parse(text)) :
        parse(text)[k].kind \in {"TITLE", "EXE", "GET"} =>
            LET c == FilterCallOf(parse(text)[k])
            IN  /\ wintext(c.field, al, mwin) # ""
                /\ choice(c.text, wintext(c.field, al, mwin))

\* The text of the event has no LIMIT command.
NoLimit(text) == \A k \in 1..Len(parse(text)) : parse(text)[k].kind # "LIMIT"

\* C33: filters do not accumulate across events.  Every event that reaches
\* Processor.update first shows every window of the list; once the commands of
\* its text are handled, a window is displayed exactly when it passes the filter
\* commands of this text (a LIMIT command aside, whose filter can only hide),
\* whatever an earlier event's text had hidden.
C33_NoAccumulation ==
    /\ last.op \in {"update", "reset"} =>
          \A i \in 1..Len(allwins) : allwins[i].is_displayed
    /\ pc = "incomplete" /\ cmds = <<>> =>
          \A i \in 1..Len(allwins) :
              /\ allwins[i].is_displayed => PassesText(pinput.cmd, alias, allwins[i])
              /\ NoLimit(pinput.cmd) /\ PassesText(pinput.cmd, alias, allwins[i])
                    => allwins[i].is_displayed

\* An event whose text is not empty, so that no reset follows, found a window
\* hidden by an earlier event's filter; WinManager.update has shown it again, and
\* the filter commands of the new text accept it.
C33_Witness ==
    /\ last.op = "update"
    /\ pc = "incomplete"
    /\ pinput.cmd # ""
    /\ \E k \in 1..Len(cmds) : cmds[k].kind \in {"TITLE", "EXE", "GET"}
    /\ \E i \in 1..Len(allwins) :
          /\ ~last.allwins[i].is_displayed
          /\ allwins[i].is_displayed
          /\ PassesText(pinput.cmd, alias, allwins[i])

\* The text has no ORDER command.
NoOrderCommand(text) == \A k \in 1..Len(parse(text)) : parse(text)[k].kind # "ORDER"

\* C34: the rendered order is determined by the last event.  When a non-commit
\* event whose text is not empty and has no order-by command renders its rows,
\* the rows are in the order that the same event gives after earlier events
\* without an order-by command, the order of the list: an order key typed in an
\* earlier event does not reach this event.
C34_OrderFromLastEvent ==
    /\ pc = "done"
    /\ pout.kind = "rows"
    /\ pinput.cmd # ""
    /\ NoOrderCommand(pinput.cmd)
    => pout.rows = WinsOf(allwins, "None", alias)

\* The event with the text "a" renders two windows by title, the second of the
\* list first, under the order key that an earlier event's text left.
C34_Witness ==
    /\ pc = "done"
    /\ pout.kind = "rows"
    /\ pinput.cmd = "a"
    /\ orderby = "title"
    /\ Len(pout.rows) = 2
    /\ pout.rows[1] > pout.rows[2]

\* C35: whenever rows are rendered or a commit is handled, the selected window
\* is none or a displayed window of the list.  The highlighted row of a render
\* is the position of the selected window in the rendered rows (selected_index
\* finds it; -1 stands for the ValueError of list.index), or row 0 when no
\* window is selected, and the window a commit activates is the selected one,
\* displayed and in the list.
C35_SelectedIsRendered ==
    /\ pc = "incomplete" /\ cmds = <<>> =>
          /\ selected_win = 0 \/ selected_win \in 1..Len(allwins)
          /\ selected_win # 0 => allwins[selected_win].is_displayed
          /\ selected_index # -1
    /\ pc = "done" /\ pout.kind = "rows" =>
          /\ pout.selnum # -1
          /\ IF selected_win = 0 THEN pout.selnum = 0
             ELSE /\ pout.selnum + 1 \in 1..Len(pout.rows)
                  /\ pout.rows[pout.selnum + 1] = selected_win
          /\ \A k \in 1..Len(pout.rows) :
                /\ pout.rows[k] \in 1..Len(allwins)
                /\ allwins[pout.rows[k]].is_displayed
    /\ pc = "done" /\ pout.show # None =>
          /\ selected_win \in 1..Len(allwins)
          /\ allwins[selected_win].is_displayed
          /\ pout.show = Some(allwins[selected_win].winfo)

\* A render after a filter that hid the selected window: the selection moved
\* to a window before it and the highlighted row is that window's, below the
\* first row of an ordered list.
C35_Witness ==
    /\ pc = "done"
    /\ pout.kind = "rows"
    /\ last.op = "filter"
    /\ last.selected_win # 0
    /\ ~allwins[last.selected_win].is_displayed
    /\ selected_win # 0
    /\ orderby # "None"
    /\ pout.selnum > 0

(***************************************************************************)
(* Properties of the history, checked under SpecHist.                      *)
(***************************************************************************)

\* update_histmgr has just called histmgr.add(pinput).
AddDone == pc = "done" /\ last.op = "forward" /\ pinput.is_complete /\ pinput.cmd # ""

\* update_histmgr has just returned from get_prev or get_next.
NavDone == pc = "done" /\ last.op \in {"get_prev", "get_next"}

\* The cursor a navigation event started from, after the wrapper's optional reset.
NavBase == IF WrapperResets(pinput) THEN -1 ELSE last.pointer

\* The length of the history filtered by the prefix the navigation event used.
NavLen == HistLen(hists, cmd_prefix)

\* C6: the stored keys are pairwise distinct, and after an add the stripped text is
\* the key of exactly one entry, the first one, which carries the row of this add.
C6_HistDedup ==
    /\ \A i, j \in 1..Len(hists) : hists[i].cmd = hists[j].cmd => i = j
    /\ AddDone =>
          /\ hists # <<>>
          /\ hists[1].cmd = Strip(pinput.cmd)
          /\ hists[1].row = (IF save_rownum = None THEN None
                             ELSE Some(get_selrowtext(pinput)))
          /\ \A i \in 2..Len(hists) : hists[i].cmd # Strip(pinput.cmd)

\* C6 witness: the key was stored behind the front with another row.
C6_Witness ==
    /\ AddDone
    /\ \E i \in 2..Len(last.hists) :
          /\ last.hists[i].cmd = Strip(pinput.cmd)
          /\ last.hists[i].row # hists[1].row
    /\ hists[1].cmd = Strip(pinput.cmd)

\* C7 as claimed: the store never holds more entries than its cap.
C7_HistCap == Len(hists) <= max_entries

\* C8 as claimed: PREV increments the cursor and clamps it to the last index, NEXT
\* decrements it and clamps it to 0.
C8_Original ==
    /\ (pc = "done" /\ last.op = "get_prev") =>
          pointer = (IF NavBase + 1 >= NavLen THEN NavLen - 1 ELSE NavBase + 1)
    /\ (pc = "done" /\ last.op = "get_next") =>
          pointer = (IF NavBase - 1 < 0 THEN 0 ELSE NavBase - 1)

\* C8 as amended: PREV decrements the cursor and clamps it to 0 (toward newer
\* entries), NEXT increments it and clamps it to the last index (toward older ones).
C8_RecallDirection ==
    /\ (pc = "done" /\ last.op = "get_prev") =>
          pointer = (IF NavBase - 1 < 0 THEN 0 ELSE NavBase - 1)
    /\ (pc = "done" /\ last.op = "get_next") =>
          pointer = (IF NavBase + 1 >= NavLen THEN NavLen - 1 ELSE NavBase + 1)

\* C8 witness: a PREV event without a reset moved the cursor from 2 to the newer 1.
C8_Witness ==
    /\ pc = "done"
    /\ last.op = "get_prev"
    /\ ~WrapperResets(pinput)
    /\ last.pointer = 2
    /\ pointer = 1
    /\ NavLen >= 3

\* C9 as claimed: a navigation event that finds the filtered history non-empty
\* leaves the cursor inside it and returns the key of the entry at the cursor.
C9_CursorInBounds ==
    (NavDone /\ NavLen > 0) =>
        /\ 0 <= pointer
        /\ pointer <= NavLen - 1
        /\ ~pout.raised
        /\ pout.cmd = Some(HistFilter(hists, cmd_prefix)[pointer + 1].cmd)

\* C10: a navigation event that follows a reset with no navigation in between
\* takes its text as the prefix; every other navigation event, and every other
\* event that does not reset, leaves the prefix as it found it.
C10_StablePrefix ==
    /\ NavDone =>
          IF WrapperResets(pinput) \/ last.cmd_prefix = None
          THEN cmd_prefix = Some(pinput.cmd)
          ELSE cmd_prefix = last.cmd_prefix
    /\ (pc = "done" /\ last.op = "forward") =>
          cmd_prefix = (IF WrapperResets(pinput) THEN None ELSE last.cmd_prefix)

\* C10 witness: a later navigation event carried another text and kept the prefix.
C10_Witness ==
    /\ NavDone
    /\ ~WrapperResets(pinput)
    /\ last.cmd_prefix # None
    /\ pinput.cmd # last.cmd_prefix[1]
    /\ cmd_prefix = last.cmd_prefix

\* C12: an event that found the window hidden, or whose text is the bare prefix,
\* is handled from the reset recall state: with no navigation key it leaves the
\* cursor at -1 and no prefix; a PREV/NEXT event captures its own text and moves
\* from -1 (PREV to 0, NEXT to 0 or, over an empty filtered history, to -1).
C12_ResetFirst ==
    (pc = "done" /\ (pinput.was_hidden \/ pinput.cmd = prefix)) =>
        /\ last.op = "forward" => (pointer = -1 /\ cmd_prefix = None)
        /\ last.op = "get_prev" => (pointer = 0 /\ cmd_prefix = Some(pinput.cmd))
        /\ last.op = "get_next" =>
              /\ cmd_prefix = Some(pinput.cmd)
              /\ pointer = (IF HistLen(hists, Some(pinput.cmd)) = 0 THEN -1 ELSE 0)

\* C12 witness: a NEXT event with the bare prefix as text found the cursor at 2
\* under another prefix, and left the cursor at 0 under its own text.
C12_Witness ==
    /\ pc = "done"
    /\ last.op = "get_next"
    /\ ~pinput.was_hidden
    /\ pinput.cmd = prefix
    /\ last.pointer = 2
    /\ last.cmd_prefix # None
    /\ last.cmd_prefix # Some(pinput.cmd)
    /\ pointer = 0
    /\ cmd_prefix = Some(pinput.cmd)

(***************************************************************************)
(* Properties of StrCompare, checked under SpecCmp.                        *)
(***************************************************************************)

\* StrCompare.<fn>(test, target) has returned.
CmpDone(fn) == pc = "done" /\ pout.fn = fn

\* a is an ordered subsequence of b: its characters are found in b at strictly
\* increasing positions.
IsSubsequence(a, b) ==
    \E f \in [1..Len(a) -> 1..Len(b)] :
        /\ \A i \in 1..Len(a) : CharAt(b, f[i]) = CharAt(a, i)
        /\ \A i, j \in 1..Len(a) : i < j => f[i] < f[j]

\* C13: for non-empty test and target, progressive is true exactly when the
\* lower-cased test is an ordered subsequence of the lower-cased target.
C13_ProgressiveSubsequence ==
    (CmpDone("progressive") /\ pinput.test # "" /\ pinput.target # "") =>
        (pout.result <=> IsSubsequence(Lower(pinput.test), Lower(pinput.target)))

\* C13 witness: every character of the test is in the target, in another order.
C13_Witness ==
    /\ CmpDone("progressive")
    /\ pinput.test = "Ba"
    /\ pinput.target = "ab"
    /\ ~pout.result

\* C14 as claimed: progressive("fnc", "Finance") is true and
\* progressive("fnace", "Finance") is false.
C14_Original ==
    (CmpDone("progressive") /\ pinput.target = "Finance") =>
        /\ pinput.test = "fnc" => pout.result
        /\ pinput.test = "fnace" => ~pout.result

\* C14 as amended: progressive("fnc", "Finance") and progressive("fnace", "Finance")
\* are both true (f, n, a, c, e are found in "finance" in this order), and
\* progressive("fnca", "Finance") is false.
C14_ProgressiveExamples ==
    (CmpDone("progressive") /\ pinput.target = "Finance") =>
        /\ pinput.test = "fnc" => pout.result
        /\ pinput.test = "fnace" => pout.result
        /\ pinput.test = "fnca" => ~pout.result

\* C14 witness: the call progressive("fnace", "Finance") has returned true.
C14_Witness ==
    /\ CmpDone("progressive")
    /\ pinput.test = "fnace"
    /\ pinput.target = "Finance"
    /\ pout.result

\* C15: for exact, includes, progressive and choice, an empty test matches every
\* target and a non-empty test does not match the empty target.
C15_EmptyArguments ==
    (pc = "done" /\ pout.fn \in {"exact", "includes", "progressive", "choice"}) =>
        /\ pinput.test = "" => pout.result
        /\ (pinput.test # "" /\ pinput.target = "") => ~pout.result

\* C15 witness: exact("", "") has returned true.
C15_Witness ==
    /\ CmpDone("exact")
    /\ pinput.test = ""
    /\ pinput.target = ""
    /\ pout.result

\* C16 as claimed: for every test and target, choice is includes of the test
\* without its sigil when the test starts with the sigil, and progressive otherwise.
C16_Original ==
    CmpDone("choice") =>
        pout.result = (IF StartsWith(pinput.test, "'")
                       THEN includes(Tail(pinput.test), pinput.target)
                       ELSE progressive(pinput.test, pinput.target))

\* C16 as amended: the dispatch holds for every test and every non-empty target;
\* with the empty target choice is true only for the empty test, so the bare
\* sigil does not match it; choice("'fin", "Finance") is true and
\* choice("'fnc", "Finance") is false.
C16_ChoiceDispatch ==
    CmpDone("choice") =>
        /\ pinput.target # "" =>
              pout.result = (IF StartsWith(pinput.test, "'")
                             THEN includes(Tail(pinput.test), pinput.target)
                             ELSE progressive(pinput.test, pinput.target))
        /\ pinput.target = "" => (pout.result <=> pinput.test = "")
        /\ (pinput.test = "'fin" /\ pinput.target = "Finance") => pout.result
        /\ (pinput.test = "'fnc" /\ pinput.target = "Finance") => ~pout.result

\* C16 witness: choice("'", "") has returned false.
C16_Witness ==
    /\ CmpDone("choice")
    /\ pinput.test = "'"
    /\ pinput.target = ""
    /\ ~pout.result

(***************************************************************************)
(* Properties of parse, checked under SpecParse.                           *)
(***************************************************************************)

\* C21 as claimed: parse(';e notepad ;o title') is the command list of
\* parse(';e notepad;o title'): an exe filter "notepad", then an order-by "title".
C21_TrailingSpaceIgnored ==
    (CmpDone("parse") /\ pinput.input \in {";e notepad ;o title", ";e notepad;o title"}) =>
        pout.result = << [kind |-> "EXE", text |-> "notepad"],
                         [kind |-> "ORDER", text |-> "title"] >>

\* The text after the first white-space run of a text of ParseParts that follows
\* its discriminator with no white space between.
AfterWord(text) == IF text = "x y" THEN "y" ELSE ""

\* The command the table of C22 gives a one-token input: its kind by the
\* discriminator, its text the remainder after the first white-space run.
TableKind(disc) ==
    CASE disc = "t" -> "TITLE" [] disc = "e" -> "EXE" [] disc = "g" -> "GET"
      [] disc = "s" -> "SET" [] disc = "o" -> "ORDER" [] disc = "l" -> "LIMIT"
      [] disc = "d" -> "DELETE" [] OTHER -> "UNKNOWN"

CodeKind(p) ==
    CASE p.disc \in {"t", "e"} ->
              IF p.ws2 # "" THEN TableKind(p.disc) ELSE "UNKNOWN"
      [] p.disc \in {"g", "s", "l"} ->
              IF p.ws2 # "" \/ p.text = "" THEN TableKind(p.disc) ELSE "UNKNOWN"
      [] p.disc = "o" -> "ORDER"
      [] p.disc = "d" -> IF p.text = "" THEN "DELETE" ELSE "UNKNOWN"
      [] OTHER -> "UNKNOWN"

TitlePrefixes == {"t", "ti", "tit", "titl", "title"}
ExePrefixes == {"e", "ex", "exe"}
AliasPrefixes == {"a", "al", "ali", "alia", "alias"}

\* set_orderby(key) has returned.
OrderbyDone == pc = "done" /\ pout.fn = "set_orderby"

\* C23: set_orderby(key) with a non-empty prefix of 'title', 'exe' or 'alias' makes
\* that full name the order key and returns True, so that the keys 'e' and 'exe'
\* leave the same order key; with an empty key or a key that is a prefix of none of
\* the names it makes the order key none and returns False, whatever the order key
\* was before.
C23_OrderbyPrefix ==
    OrderbyDone =>
        /\ pinput.key \in TitlePrefixes => orderby = "title" /\ pout.result = TRUE
        /\ pinput.key \in ExePrefixes => orderby = "exe" /\ pout.result = TRUE
        /\ pinput.key \in AliasPrefixes => orderby = "alias" /\ pout.result = TRUE
        /\ pinput.key \notin TitlePrefixes \cup ExePrefixes \cup AliasPrefixes
               => orderby = "None" /\ pout.result = FALSE

\* A call with the key 'e' has replaced another order key by 'exe'.
C23_Witness ==
    /\ OrderbyDone
    /\ pinput.key = "e"
    /\ last.orderby = "title"
    /\ orderby = "exe"
    /\ pout.result = TRUE

\* C24: set_orderby changes only the order key: for every key, each window's
\* displayed flag, each window's number, the window list, the selected window and
\* the aliases, in memory and in the alias file, are as the call found them.
C24_OrderbyFrame ==
    OrderbyDone =>
        /\ Len(allwins) = Len(last.allwins)
        /\ \A i \in 1..Len(allwins) :
              /\ allwins[i].is_displayed = last.allwins[i].is_displayed
              /\ allwins[i].num = last.allwins[i].num
              /\ allwins[i].winfo = last.allwins[i].winfo
        /\ selected_win = last.selected_win
        /\ alias = last.alias
        /\ alias_file = last.alias

\* A call has changed the order of the rows, with the second window of the new
\* order selected, a window hidden or not, and an alias held.
C24_Witness ==
    /\ OrderbyDone
    /\ orderby # last.orderby
    /\ wins # WinsOf(last.allwins, last.orderby, last.alias)
    /\ Len(wins) = 2
    /\ selected_win = wins[2]
    /\ alias # <<>>

(***************************************************************************)
(* Properties of filter, checked under SpecCompose.                        *)
(***************************************************************************)

\* The fields after one call c of filter on the fields f.
AfterCall(f, c) ==
    LET r == FilterLoop(WinsOf(f.allwins, f.orderby, f.alias), c.text, c.field, c.isexact,
                        f.alias, f.allwins, f.selected_win, 0)
    IN  [f EXCEPT !.allwins = r.allwins, !.selected_win = r.selected_win]

\* The windows of aw that the call c accepts.
Accepts(c, al, mwin) ==
    /\ wintext(c.field, al, mwin) # ""
    /\ IF c.isexact THEN exact(c.text, wintext(c.field, al, mwin))
       ELSE choice(c.text, wintext(c.field, al, mwin))

\* Both calls of the event are made.
ComposeDone == pc = "done" /\ cmds = <<>> /\ last.op = "update"

\* C32: filters applied in sequence within one event compose as an intersection
\* and commute.  No call of filter shows a window that was hidden; once both
\* calls f and g are made, the displayed windows are those the event found
\* displayed that f and g both accept, the windows and the selection are the
\* ones that g followed by f leaves on the fields the event found, and when f
\* and g are the same call they are the ones a single call leaves.
C32_FiltersCompose ==
    /\ last.op = "update" =>
          /\ Len(allwins) = Len(last.allwins)
          /\ \A i \in 1..Len(allwins) :
                allwins[i].is_displayed => last.allwins[i].is_displayed
    /\ ComposeDone =>
          LET f == pinput.calls[1]
              g == pinput.calls[2]
              gf == AfterCall(AfterCall(last, g), f)
          IN  /\ \A i \in 1..Len(allwins) :
                    allwins[i].is_displayed <=>
                        /\ last.allwins[i].is_displayed
                        /\ Accepts(f, alias, allwins[i])
                        /\ Accepts(g, alias, allwins[i])
              /\ allwins = gf.allwins
              /\ selected_win = gf.selected_win
              /\ f = g => /\ allwins = AfterCall(last, f).allwins
                          /\ selected_win = AfterCall(last, f).selected_win

\* Two different calls are made on three windows ordered by title; each hides a
\* window the other accepts, the selected window among them, and the selection
\* has moved to the window that both accept.
C32_Witness ==
    /\ ComposeDone
    /\ pinput.calls[1] # pinput.calls[2]
    /\ Len(allwins) = 3
    /\ orderby = "title"
    /\ \E i, j \in 1..3 :
          /\ ~Accepts(pinput.calls[1], alias, allwins[i])
          /\ Accepts(pinput.calls[2], alias, allwins[i])
          /\ Accepts(pinput.calls[1], alias, allwins[j])
          /\ ~Accepts(pinput.calls[2], alias, allwins[j])
          /\ last.selected_win = i
    /\ selected_win # 0
    /\ selected_win # last.selected_win
    /\ allwins[selected_win].is_displayed

(***************************************************************************)
(* Properties of the rendered rows, checked under SpecNotepad.             *)
(***************************************************************************)

\* _render_rows has built the rows.
RenderDone == pc = "done" /\ pout.kind = "rows"

\* The field of the window at position i that the order key names.
OrderField(i) ==
    CASE orderby = "title" -> allwins[i].winfo.title
      [] orderby = "exe" -> allwins[i].winfo.exe
      [] OTHER -> get_alias(alias, allwins[i].winfo)

\* C26: the rendered rows are exactly the displayed windows, each once, and with
\* an order key set they are in ascending order of the key's field; the rows of
\* the input ';e notepad.exe;o title' are exactly the windows of notepad.exe in the
\* list, in the order of their titles, 'Untitled - Notepad' before 'a.txt - Notepad'.
C26_RenderedOrder ==
    RenderDone =>
        /\ \A i \in 1..Len(allwins) :
              allwins[i].is_displayed <=> \E r \in 1..Len(pout.rows) : pout.rows[r] = i
        /\ \A r1, r2 \in 1..Len(pout.rows) : pout.rows[r1] = pout.rows[r2] => r1 = r2
        /\ orderby # "None" =>
              \A r1, r2 \in 1..Len(pout.rows) :
                 r1 < r2 => ~StrLess(OrderField(pout.rows[r2]), OrderField(pout.rows[r1]))
        /\ pinput.cmd = NotepadExample =>
              /\ orderby = "title"
              /\ \A i \in 1..Len(allwins) :
                    allwins[i].winfo.exe = "notepad.exe"
                       <=> \E r \in 1..Len(pout.rows) : pout.rows[r] = i
              /\ \A r1, r2 \in 1..Len(pout.rows) :
                    /\ allwins[pout.rows[r1]].winfo.title = "Untitled - Notepad"
                    /\ allwins[pout.rows[r2]].winfo.title = "a.txt - Notepad"
                    => r1 < r2

\* The example input has rendered the two Notepad windows, listed after a window
\* of another executable and in the opposite order.
C26_Witness ==
    /\ RenderDone
    /\ pinput.cmd = NotepadExample
    /\ Len(allwins) = 3
    /\ allwins[1].winfo.exe = "calc.exe"
    /\ allwins[2].winfo.title = "a.txt - Notepad"
    /\ allwins[3].winfo.title = "Untitled - Notepad"
    /\ pout.rows = <<3, 2>>

(***************************************************************************)
(* Properties of the loads, checked under SpecLoad.                        *)
(***************************************************************************)

\* Processor.__init__ has returned or raised.
ConstructDone == pc = "done" /\ pout.fn = "__init__"

\* C29: when the history file or the alias file is not JSON, the other one being
\* not JSON either or as the program wrote it, Processor.__init__ returns without
\* raising and the store of each file that is not JSON is empty.
C29_MalformedNeverFatal ==
    (/\ ConstructDone
     /\ pinput.hist_blob \in HistMalformed \cup HistWritten
     /\ pinput.alias_blob \in AliasMalformed \cup AliasWritten
     /\ pinput.hist_blob \in HistMalformed \/ pinput.alias_blob \in AliasMalformed)
    => /\ pout.result = "ok"
       /\ pinput.hist_blob \in HistMalformed => hists = <<>>
       /\ pinput.alias_blob \in AliasMalformed => alias = <<>>

\* An alias file that is not JSON has been loaded as no alias, and the
\* construction went on to the history.
C29_Witness ==
    /\ ConstructDone
    /\ pinput.alias_blob \in AliasMalformed
    /\ pinput.hist_blob \in HistWritten
    /\ pout.result = "ok"
    /\ alias = <<>>
    /\ hists # <<>>

(***************************************************************************)
(* Properties of DirAgg, checked under SpecDirAgg.                         *)
(***************************************************************************)

\* A DirAgg event has been handled: use_processor, and update if it was used.
DirEventDone == last.op = "event"

\* The event was DirAgg's: its text is not empty and starts with the prefix.
DirUsed == pinput.cmd # "" /\ SubSeq(pinput.cmd, 1, 1) = ">"

\* C30: an event of DirAgg at the categories list with a highlighted row and the
\* INTO key or the commit flag moves into the category of that row and replaces
\* the input text with '>'; an event of DirAgg inside a category with the OUTOF
\* key returns to the categories list; an event with an empty text and a
\* reload_config return to the categories list; every other event leaves the
\* level as it was.
C30_LevelTransitions ==
    /\ last.op = "reload_config" => selected = None
    /\ DirEventDone =>
          IF pinput.cmd = "" THEN selected = None
          ELSE IF /\ DirUsed
                  /\ last.selected = None
                  /\ pinput.selrow # None
                  /\ (pinput.key = "INTO" \/ pinput.is_complete)
               THEN /\ selected = Some(pinput.selrow[1][1])
                    /\ pout.kind = "cmd"
                    /\ pout.cmd = Some(">")
          ELSE IF DirUsed /\ last.selected # None /\ pinput.key = "OUTOF"
               THEN selected = None
          ELSE selected = last.selected

\* Inside a category, the OUTOF key has brought back the categories list.
C30_Witness ==
    /\ DirEventDone
    /\ last.selected = Some("Fin")
    /\ pinput.key = "OUTOF"
    /\ selected = None
    /\ pout.kind = "rows"
    /\ pout.rows = <<<<"Fin">>, <<"Med">>>>

\* C39: under every interleaving of events and reload_config calls, whenever
\* DirAgg is inside a category, the selected category is a key of the current
\* locations configuration, and no event raises for a category that is missing.
C39_SelectedIsCategory ==
    /\ selected # None => selected[1] \in CfgKeys(cfg)
    /\ DirEventDone /\ DirUsed /\ ~pinput.is_complete => pout.kind # "raised"

\* After a reload that dropped the category 'Fin', the INTO key on the row 'Fin',
\* still highlighted from the render before the reload, has selected it.
C39_Witness ==
    /\ DirEventDone
    /\ pinput.key = "INTO"
    /\ pinput.selrow = Some(<<"Fin">>)
    /\ last.selected = None
    /\ selected = Some("Fin")
    /\ "Fin" \notin CfgKeys(cfg)

\* The event after it, with the text '>' that the output put into the input,
\* looks up the missing category and raises KeyError.
C39_Raised ==
    /\ DirEventDone
    /\ ~pinput.is_complete
    /\ last.selected = Some("Fin")
    /\ selected = Some("Fin")
    /\ "Fin" \notin CfgKeys(cfg)
    /\ pout.kind = "raised"

(***************************************************************************)
(* Properties of a recall session, checked under SpecRecallFair.           *)
(***************************************************************************)

\* The recall cursor is on the oldest entry that matches the captured prefix.
AtOldest == cmd_prefix # None /\ pointer = HistLen(hists, cmd_prefix) - 1

\* C36: recall progress.  In a session in which only the older key is pressed
\* and each recalled text is fed back as the next input, the cursor eventually
\* is on the oldest history entry that matches the captured prefix, for every
\* history content, one that holds the processor's bare prefix included.
C36_RecallProgress == <>AtOldest

\* Recall progress of the sessions whose history does not hold the bare prefix
\* of the processor, or holds it as its oldest entry.
ProgressWithoutPrefixKey ==
    (\A i \in 1..(Len(hists) - 1) : hists[i].cmd # prefix) => <>AtOldest

\* The LaunchProcessor's history holds '.' before an older entry; a press on
\* the recalled text '.' has reset the cursor and put it back on the newest entry.
C36_Witness ==
    /\ prefix = "."
    /\ last.op = "get_next"
    /\ pinput.cmd = "."
    /\ last.pointer > 0
    /\ pointer = 0
    /\ HistLen(hists, cmd_prefix) > last.pointer + 1

(***************************************************************************)
(* Properties of the commit, checked under SpecCommit.                     *)
(***************************************************************************)

RECURSIVE LastCompletion(_)
\* The last SET, DELETE or UNKNOWN command of the commands cs, as an Optional.
LastCompletion(cs) ==
    IF cs = <<>> THEN None
    ELSE IF cs[Len(cs)].kind \in {"SET", "DELETE", "UNKNOWN"} THEN Some(cs[Len(cs)])
    ELSE LastCompletion(SubSeq(cs, 1, Len(cs) - 1))

\* The number of SET, DELETE and UNKNOWN commands of the text.
Completions(text) ==
    Cardinality({k \in 1..Len(parse(text)) : parse(text)[k].kind \in {"SET", "DELETE", "UNKNOWN"}})

\* A commit has run a command.
CompleteDone == pc = "done" /\ last.op \in {"set_alias", "delete_all_alias", "unknown"}

\* C37: of several completion commands in one text, a commit runs exactly the
\* last.  While the commands are read, the aliases and the alias blob stay as
\* the event found them; the commit then changes them as the last command alone
\* does on those aliases (set-alias on the selected window, delete-all, nothing
\* for an unknown command), and the status text holds the one line of that
\* command.
C37_LastCompletionOnly ==
    /\ pc = "incomplete" /\ last.op \in {"update", "reset"} =>
          /\ alias = last.alias
          /\ alias_file = last.alias
    /\ CompleteDone =>
          LET c == LastCompletion(parse(pinput.cmd))[1]
          IN  /\ LastCompletion(parse(pinput.cmd)) # None
              /\ pout.outtext = <<CompleteLine(c)>>
              /\ pout.cmd = Some("")
              /\ CASE c.kind = "SET" ->
                        /\ last.op = "set_alias"
                        /\ alias = IF selected_win = 0 THEN last.alias
                                   ELSE Outlist(Assign(PopOwner(last.alias, c.text),
                                                       allwins[selected_win].winfo, c.text),
                                                allwins)
                   [] c.kind = "DELETE" ->
                        /\ last.op = "delete_all_alias"
                        /\ alias = <<>>
                   [] OTHER ->
                        /\ last.op = "unknown"
                        /\ alias = last.alias

\* A commit of ';s k;d' on a list with an alias: the alias is deleted, no window
\* has the alias k, and the status line is that of the delete.
C37_Witness ==
    /\ CompleteDone
    /\ pinput.cmd = ";s k;d"
    /\ Completions(pinput.cmd) = 2
    /\ selected_win # 0
    /\ last.alias # <<>>
    /\ alias = <<>>
    /\ pout.outtext = <<"All aliases deleted">>

(***************************************************************************)
(* Properties of the exclusion rules, checked under SpecExclude.           *)
(***************************************************************************)

\* A rule matches a window as the exclusion file is read: a rule with a title
\* and an exe by both, a rule with one of them by that one.
RuleMatches(rule, winfo) ==
    IF rule.title # "" /\ rule.exe # ""
    THEN rule.title = winfo.title /\ rule.exe = winfo.exe
    ELSE IF rule.title # "" THEN rule.title = winfo.title
    ELSE IF rule.exe # "" THEN rule.exe = winfo.exe
    ELSE FALSE

\* Some rule of the loaded file matches the window.
Matched(winfo) == \E r \in 1..Len(exclusions) : RuleMatches(exclusions[r], winfo)

RECURSIVE Unmatched(_)
\* The windows of a listing that no rule matches, in the order listed.
Unmatched(winlist) ==
    IF winlist = <<>> THEN <<>>
    ELSE (IF Matched(Head(winlist)) THEN <<>> ELSE <<Head(winlist)>>)
         \o Unmatched(Tail(winlist))

\* reset has run on the listing in pinput.
ExcludeDone == pc = "done" /\ last.op = "reset"

\* C38: exclusion rules.  A rule with a title and an exe excludes a window only
\* if both equal the window's; a rule with only a title, or only an exe,
\* excludes exactly the windows with that title, or exe; so after reset the list
\* holds exactly the listed windows that no rule matches, and none that a rule
\* matches.
C38_ExclusionRules ==
    ExcludeDone =>
        /\ [i \in 1..Len(allwins) |-> allwins[i].winfo] = Unmatched(pinput.winlist)
        /\ \A i \in 1..Len(allwins) : ~Matched(allwins[i].winfo)

\* The same for the files in which no rule has both a title and an exe.
ExclusionBySingleField ==
    ExcludeDone /\ (\A r \in 1..Len(exclusions) :
                        exclusions[r].title = "" \/ exclusions[r].exe = "") =>
        /\ [i \in 1..Len(allwins) |-> allwins[i].winfo] = Unmatched(pinput.winlist)
        /\ \A i \in 1..Len(allwins) : ~Matched(allwins[i].winfo)

\* The one rule has the title 'ab' and the exe 'xy'; the window 'ab' of the
\* executable 'x' is listed and is not in the list after reset.
C38_Witness ==
    /\ ExcludeDone
    /\ exclusions = <<[title |-> "ab", exe |-> "xy"]>>
    /\ \E k \in 1..Len(pinput.winlist) : pinput.winlist[k] = [title |-> "ab", exe |-> "x"]
    /\ \A i \in 1..Len(allwins) : allwins[i].winfo # [title |-> "ab", exe |-> "x"]

(***************************************************************************)
(* Properties of the whole handler, checked under SpecFull.                *)
(***************************************************************************)

\* C11: a step changes the list of history entries only when it takes in a commit
\* event with a non-empty text and no navigation key, and the step that takes in
\* a PREV/NEXT event leaves the window list, selection, order key and aliases.
C11_HistoryFrame ==
    [][/\ hists' # hists =>
             /\ pc = "idle"
             /\ pinput'.is_complete
             /\ pinput'.cmd # ""
             /\ pinput'.key = "NONE"
       /\ (pc = "idle" /\ pinput'.key \in {"PREV", "NEXT"}) =>
             /\ pc' = "done"
             /\ UNCHANGED <<allwins, selected_win, orderby, alias, alias_file>>]_vars

\* C11 witness: a PREV event with the commit flag and a text found windows listed
\* and an order key set, and left them and the history as they were.
C11_Witness ==
    /\ pc = "done"
    /\ last.op = "get_prev"
    /\ pinput.is_complete
    /\ pinput.cmd # ""
    /\ hists = last.hists
    /\ hists # <<>>
    /\ allwins # <<>>
    /\ allwins = last.allwins
    /\ orderby = "title"
=============================================================================
